---------------------------- MODULE Spec2Model ----------------------------
(***************************************************************************)
(* RoadCDN multi-region support (src/src/multiregion.ts): the region       *)
(* directory and routing engine (MultiRegionRouter), the health monitor    *)
(* (performHealthChecks), the cross-region replicator                      *)
(* (CrossRegionReplicator) and the region-scoped cache (GeoCacheManager);  *)
(* and the GET /cdn and PUT /cdn handlers of the HTTP front door.          *)
(*                                                                         *)
(* The specifications share the variables:                                 *)
(*   SpecRoute   the routing engine over a bounded family of directories   *)
(*   SpecHealth  health sweeps over a directory with arbitrary prior       *)
(*               health state                                              *)
(*   SpecRepl    replication jobs running concurrently                     *)
(*   SpecProgress  replication jobs of three and six writes, one by one    *)
(*   SpecList    replication jobs and calls of listJobs                    *)
(*   SpecKey     calls of getCacheKey                                      *)
(*   SpecCache   calls of the cache manager over a few directories         *)
(*   SpecDir     addRegion, loadRegions, saveRegions and route             *)
(*   SpecFront   GET and PUT /cdn requests of the HTTP front door          *)
(*               (src/unnamed/part_001), handled concurrently              *)
(***************************************************************************)
EXTENDS Integers, Sequences, FiniteSets, TLC

VARIABLES
    regions,    \* MultiRegionRouter.regions: the Map, as a sequence in insertion order
    now,        \* Date.now()
    last,       \* the call that returned last, its inputs and what it returned
    sweep,      \* the position of the running performHealthChecks call, its locals
    jobs,       \* CrossRegionReplicator.jobs: job id -> ReplicationJob
    run,        \* job id -> the position of its runReplication call and its locals
    bucket,     \* the object store: key -> the object stored under it
    kvJobs,     \* the key-value store under 'replication:<id>': the persisted records
    kvRegions,  \* the key-value store under 'cdn:regions': the persisted directory
    statusLog,  \* history: job id -> the values assigned to job.status, in order
    returned,   \* history: job id -> the record as startReplication returned it
    storeLog,   \* history: job id -> the store calls of its run and how they settled
    faults,     \* the number of store calls of runs that have rejected so far
    kvCache,    \* the key-value store under 'cache:...': the stored entries
    geo,        \* the position of the running purge or warmCache call, its locals
    entries,    \* history: (region id, path) -> the content cached for the pair
    reqs,       \* the /cdn requests of the front door: their position and locals
    assets,     \* the front door's object store: path -> the object stored under it
    served      \* history: path -> the GET requests served since its entry was created

vars == <<regions, now, last, sweep, kvRegions, jobs, run, bucket, kvJobs, statusLog, returned,
         storeLog, faults, kvCache, geo, entries, reqs, assets, served>>

routerVars == <<regions, sweep, kvRegions>>
replVars == <<jobs, run, bucket, kvJobs, statusLog, returned, storeLog, faults>>
cacheVars == <<kvCache, geo, entries>>
frontVars == <<reqs, assets, served>>

----------------------------------------------------------------------------
(* Bounds *)

MaxRegions == 2      \* regions in a directory of the routing family
MaxOrigins == 2      \* origins of the single region of the selection family
MaxWeight == 2       \* origin weights are 0..MaxWeight
MaxFailures == 4     \* failing probes are cut off at this counter value
MaxTime == 5         \* the clock stops here
MaxFaults == 1       \* store calls that reject in a behaviour
MaxJobs == 2         \* jobs started in a behaviour
MaxClients == 3      \* requests of the front door in a behaviour
MaxUploads == 1      \* PUT requests among them

(* Program constants *)

FailureThreshold == 3    \* consecutiveFailures < 3
SentinelLatency == 9999  \* latencyMs of a probe that threw

----------------------------------------------------------------------------
(* Small helpers *)

SeqsUpTo(S, n) == UNION {[1..k -> S] : k \in 0..n}

RECURSIVE SumSeq(_)
SumSeq(s) == IF s = <<>> THEN 0 ELSE Head(s) + SumSeq(Tail(s))

RECURSIVE FilterIdx(_, _, _)
\* the indices i >= from of s, in order, whose element satisfies healthy
FilterIdx(s, from, want) ==
    IF from > Len(s) THEN <<>>
    ELSE IF s[from].healthy = want
         THEN <<from>> \o FilterIdx(s, from + 1, want)
         ELSE FilterIdx(s, from + 1, want)

----------------------------------------------------------------------------
(* Data model *)

RegionIdSeq ==
    <<"us-east", "us-west", "eu-west", "eu-central", "ap-southeast", "ap-northeast">>

NoFallback == ""     \* Region.fallback is optional; absent or empty is falsy
NoCountry == ""      \* cf?.country absent

DefaultCountry == "US"

Origin(w, h, l, c) ==
    [weight |-> w, healthy |-> h, latencyMs |-> l, consecutiveFailures |-> c,
     lastCheck |-> 0]

Region(id, cs, fb, os) ==
    [id |-> id, countries |-> cs, fallback |-> fb, origins |-> os, priority |-> 1]

\* the region with another priority rank
Ranked(region, p) == [region EXCEPT !.priority = p]

NoRegion == 0        \* undefined, where the code holds a Region | undefined
NoOrigin == 0        \* undefined, where region.origins[0] does not exist

----------------------------------------------------------------------------
(* MultiRegionRouter: the directory *)

\* a variant: a region is always put at the end, beside a region with its id
addRegionAppending(rs, region) == Append(rs, region)

\* this.regions.set(region.id, region): a region with this id is replaced where it
\* stands in the iteration order, a region with a new id is put at the end
addRegion(rs, region) ==
    IF \E i \in 1..Len(rs) : rs[i].id = region.id
    THEN [i \in 1..Len(rs) |-> IF rs[i].id = region.id THEN region ELSE rs[i]]
    ELSE Append(rs, region)

OriginFields == <<"weight", "healthy", "lastCheck", "latencyMs", "consecutiveFailures">>

RegionFields == <<"id", "origins", "priority", "countries", "fallback">>

\* JSON.stringify(regions): per region the properties that are defined, each with
\* its value; an absent fallback is left out
stringifyRegions(rs) ==
    [k \in 1..Len(rs) |->
        LET defined == SelectSeq(RegionFields,
                                 LAMBDA f : ~(f = "fallback" /\ rs[k][f] = NoFallback))
            origins == [j \in 1..Len(rs[k].origins) |->
                           [i \in 1..Len(OriginFields) |->
                               <<OriginFields[i], rs[k].origins[j][OriginFields[i]]>>]]
        IN  [i \in 1..Len(defined) |->
                <<defined[i], IF defined[i] = "origins" THEN origins ELSE rs[k][defined[i]]>>]]

\* kv.get(key, 'json'): the object that the stored text describes
parseJson(text) ==
    [f \in {text[i][1] : i \in 1..Len(text)} |->
        LET i == CHOOSE j \in 1..Len(text) : text[j][1] = f IN text[i][2]]

\* kv.get('cdn:regions', 'json'): the Region[] that the stored text describes
parseRegions(text) ==
    [k \in 1..Len(text) |->
        LET obj == parseJson(text[k])
        IN  [id |-> obj.id, countries |-> obj.countries, priority |-> obj.priority,
             fallback |-> IF "fallback" \in DOMAIN obj THEN obj.fallback ELSE NoFallback,
             origins |-> [j \in 1..Len(obj.origins) |-> parseJson(obj.origins[j])]]]

\* the stored value of 'cdn:regions': none, or one text
NothingPersisted == <<>>

RECURSIVE Merged(_, _, _)
\* for (const region of data) this.regions.set(region.id, region), from data[k] on
Merged(rs, data, k) ==
    IF k > Len(data) THEN rs ELSE Merged(addRegion(rs, data[k]), data, k + 1)

\* a variant: the persisted regions take the place of the whole directory
loadRegionsReplacing(rs, stored) ==
    IF stored = NothingPersisted THEN rs ELSE parseRegions(stored[1])

\* the directory after loadRegions has read the stored value
loadRegions(rs, stored) ==
    IF stored = NothingPersisted THEN rs ELSE Merged(rs, parseRegions(stored[1]), 1)

AddRegion(region) ==
    /\ regions' = addRegion(regions, region)
    /\ last' = [op |-> "addRegion", region |-> region]
    /\ UNCHANGED <<now, sweep, kvRegions>>
    /\ UNCHANGED replVars
    /\ UNCHANGED cacheVars
    /\ UNCHANGED frontVars

\* kv.get resolves: the persisted regions are merged into the directory
LoadRegions ==
    /\ regions' = loadRegions(regions, kvRegions)
    /\ last' = [op |-> "loadRegions", ok |-> TRUE]
    /\ UNCHANGED <<now, sweep, kvRegions>>
    /\ UNCHANGED replVars
    /\ UNCHANGED cacheVars
    /\ UNCHANGED frontVars

\* a variant: a load that fails empties the directory
LoadRegionsRejectedClearing ==
    /\ regions' = <<>>
    /\ last' = [op |-> "loadRegions", ok |-> FALSE]
    /\ UNCHANGED <<now, sweep, kvRegions>>
    /\ UNCHANGED replVars
    /\ UNCHANGED cacheVars
    /\ UNCHANGED frontVars

\* kv.get rejects: loadRegions rejects with the store's error
LoadRegionsRejected ==
    /\ last' = [op |-> "loadRegions", ok |-> FALSE]
    /\ UNCHANGED <<regions, now, sweep, kvRegions>>
    /\ UNCHANGED replVars
    /\ UNCHANGED cacheVars
    /\ UNCHANGED frontVars

\* kv.put resolves: the single key holds the directory as it was at the call
SaveRegions ==
    /\ kvRegions' = <<stringifyRegions(regions)>>
    /\ last' = [op |-> "saveRegions", ok |-> TRUE]
    /\ UNCHANGED <<regions, now, sweep>>
    /\ UNCHANGED replVars
    /\ UNCHANGED cacheVars
    /\ UNCHANGED frontVars

\* kv.put rejects: saveRegions rejects with the store's error, the key is not written
SaveRegionsRejected ==
    /\ last' = [op |-> "saveRegions", ok |-> FALSE]
    /\ UNCHANGED <<regions, now, sweep, kvRegions>>
    /\ UNCHANGED replVars
    /\ UNCHANGED cacheVars
    /\ UNCHANGED frontVars

----------------------------------------------------------------------------
(* MultiRegionRouter: routing *)

\* Map.get(id): the position of the region with this id, NoRegion if there is none
RegionsGet(rs, id) ==
    IF \E i \in 1..Len(rs) : rs[i].id = id
    THEN CHOOSE i \in 1..Len(rs) : rs[i].id = id
    ELSE NoRegion

\* a variant: among the regions that list the country the best priority rank wins
findRegionByPriority(rs, country) ==
    IF \E i \in 1..Len(rs) : country \in rs[i].countries
    THEN CHOOSE i \in 1..Len(rs) :
            /\ country \in rs[i].countries
            /\ \A j \in 1..Len(rs) :
                  country \in rs[j].countries =>
                      \/ rs[i].priority < rs[j].priority
                      \/ rs[i].priority = rs[j].priority /\ i <= j
    ELSE NoRegion

findRegionByCountry(rs, country) ==
    IF \E i \in 1..Len(rs) : country \in rs[i].countries
    THEN CHOOSE i \in 1..Len(rs) :
            /\ country \in rs[i].countries
            /\ \A j \in 1..(i - 1) : country \notin rs[j].countries
    ELSE NoRegion

isRegionHealthy(region) == \E i \in 1..Len(region.origins) : region.origins[i].healthy

HealthyOrigins(region) == FilterIdx(region.origins, 1, TRUE)

\* the sum and the number of the healthy origins' latencies; the average is their quotient
LatencySum(region) ==
    LET hs == HealthyOrigins(region)
    IN  SumSeq([k \in 1..Len(hs) |-> region.origins[hs[k]].latencyMs])

LatencyCount(region) == Len(HealthyOrigins(region))

\* a variant: the regions are compared by the sum of their healthy origins' latencies
SumLess(a, b) == LatencySum(a) < LatencySum(b)

\* getAverageLatency(a) < getAverageLatency(b), both with a healthy origin
AvgLess(a, b) == LatencySum(a) * LatencyCount(b) < LatencySum(b) * LatencyCount(a)

RECURSIVE ReduceLowest(_, _, _, _)
\* Array.reduce over healthyRegions (positions hs), best so far at position best
ReduceLowest(rs, hs, k, best) ==
    IF k > Len(hs) THEN best
    ELSE ReduceLowest(rs, hs, k + 1,
                      IF AvgLess(rs[hs[k]], rs[best]) THEN hs[k] ELSE best)

RECURSIVE HealthyRegions(_, _)
HealthyRegions(rs, from) ==
    IF from > Len(rs) THEN <<>>
    ELSE IF isRegionHealthy(rs[from])
         THEN <<from>> \o HealthyRegions(rs, from + 1)
         ELSE HealthyRegions(rs, from + 1)

\* a variant: the regions are not filtered by health before the reduce
findLowestLatencyRegionUnfiltered(rs) ==
    IF Len(rs) = 0 THEN NoRegion ELSE 1

findLowestLatencyRegion(rs) ==
    LET hs == HealthyRegions(rs, 1)
    IN  IF Len(hs) = 0 THEN NoRegion
        ELSE ReduceLowest(rs, hs, 2, hs[1])

TotalWeight(region) ==
    LET hs == HealthyOrigins(region)
    IN  SumSeq([k \in 1..Len(hs) |-> region.origins[hs[k]].weight])

\* whether selectOrigin reaches Math.random()
Samples(region) == Len(HealthyOrigins(region)) >= 2

\* The draws Math.random() * totalWeight can produce, in halves: d stands for d / 2,
\* so that both the whole values and values strictly between them are covered.
\* Math.random() is in [0, 1): the product is in [0, totalWeight), and 0 when
\* totalWeight is 0.
Draws(region) ==
    IF Samples(region) /\ TotalWeight(region) > 0
    THEN 0..(2 * TotalWeight(region) - 1)
    ELSE {0}

\* the loop's exit test, random <= 0, on the value in halves
DrawExhausted(random2) == random2 <= 0

RECURSIVE SelectLoop(_, _, _, _)
\* for (const origin of healthyOrigins) { random -= origin.weight; if (random <= 0) return origin }
SelectLoop(region, hs, k, random2) ==
    IF k > Len(hs) THEN hs[1]
    ELSE LET r == random2 - 2 * region.origins[hs[k]].weight
         IN  IF DrawExhausted(r) THEN hs[k]
             ELSE SelectLoop(region, hs, k + 1, r)

\* a variant: the shortcut for one healthy origin returns the region's first origin
selectOriginFirst(region, draw) ==
    LET hs == HealthyOrigins(region)
    IN  IF Len(hs) = 0
        THEN (IF Len(region.origins) > 0 THEN 1 ELSE NoOrigin)
        ELSE IF Len(hs) = 1 THEN 1
        ELSE SelectLoop(region, hs, 1, draw)

\* the position in region.origins of the origin selectOrigin returns
selectOrigin(region, draw) ==
    LET hs == HealthyOrigins(region)
    IN  IF Len(hs) = 0
        THEN (IF Len(region.origins) > 0 THEN 1 ELSE NoOrigin)
        ELSE IF Len(hs) = 1 THEN hs[1]
        ELSE SelectLoop(region, hs, 1, draw)

\* the region route settles on before it selects an origin, and the fallback flag
RouteTarget(rs, cfCountry) ==
    LET country == IF cfCountry = NoCountry THEN DefaultCountry ELSE cfCountry
        matched == findRegionByCountry(rs, country)
        takes   == /\ matched # NoRegion
                   /\ ~isRegionHealthy(rs[matched])
                   /\ rs[matched].fallback # NoFallback
        afterFb == IF takes THEN RegionsGet(rs, rs[matched].fallback) ELSE matched
        target  == IF afterFb = NoRegion THEN findLowestLatencyRegion(rs) ELSE afterFb
    IN  [matched |-> matched, target |-> target, fallback |-> takes]

\* a variant: an unhealthy matched region is kept, its fallback is not followed
routeNoFailover(rs, cfCountry, draw) ==
    LET country == IF cfCountry = NoCountry THEN DefaultCountry ELSE cfCountry
        matched == findRegionByCountry(rs, country)
        target  == IF matched = NoRegion THEN findLowestLatencyRegion(rs) ELSE matched
    IN  IF target = NoRegion
        THEN [ok |-> FALSE, error |-> "No healthy regions available",
              region |-> NoRegion, origin |-> NoOrigin, reason |-> "", fallback |-> FALSE]
        ELSE [ok |-> TRUE, error |-> "",
              region |-> target, origin |-> selectOrigin(rs[target], draw),
              reason |-> "geo", fallback |-> FALSE]

\* a variant: route refuses a region that has no healthy origin
routeFailingUnhealthy(rs, cfCountry, draw) ==
    LET t == RouteTarget(rs, cfCountry)
    IN  IF t.target = NoRegion \/ ~isRegionHealthy(rs[t.target])
        THEN [ok |-> FALSE, error |-> "No healthy regions available",
              region |-> NoRegion, origin |-> NoOrigin, reason |-> "", fallback |-> FALSE]
        ELSE [ok |-> TRUE, error |-> "",
              region |-> t.target, origin |-> selectOrigin(rs[t.target], draw),
              reason |-> IF t.fallback THEN "failover" ELSE "geo",
              fallback |-> t.fallback]

\* a variant: an unhealthy fallback region's own fallback is followed as well
routeTwoHops(rs, cfCountry, draw) ==
    LET t      == RouteTarget(rs, cfCountry)
        second == IF /\ t.fallback
                     /\ t.target # NoRegion
                     /\ ~isRegionHealthy(rs[t.target])
                     /\ rs[t.target].fallback # NoFallback
                  THEN RegionsGet(rs, rs[t.target].fallback)
                  ELSE NoRegion
        target == IF second # NoRegion THEN second ELSE t.target
    IN  IF target = NoRegion
        THEN [ok |-> FALSE, error |-> "No healthy regions available",
              region |-> NoRegion, origin |-> NoOrigin, reason |-> "", fallback |-> FALSE]
        ELSE [ok |-> TRUE, error |-> "",
              region |-> target, origin |-> selectOrigin(rs[target], draw),
              reason |-> IF t.fallback THEN "failover" ELSE "geo",
              fallback |-> t.fallback]

\* what route returns (ok) or throws (~ok); region and origin are positions
route(rs, cfCountry, draw) ==
    LET t == RouteTarget(rs, cfCountry)
    IN  IF t.target = NoRegion
        THEN [ok |-> FALSE, error |-> "No healthy regions available",
              region |-> NoRegion, origin |-> NoOrigin, reason |-> "", fallback |-> FALSE]
        ELSE [ok |-> TRUE, error |-> "",
              region |-> t.target, origin |-> selectOrigin(rs[t.target], draw),
              reason |-> IF t.fallback THEN "failover" ELSE "geo",
              fallback |-> t.fallback]

RequestCountries == {"US", "DE", NoCountry}

\* the draws route can make for this request: none is made unless sampling is reached
RouteDraws(rs, cfCountry) ==
    LET t == RouteTarget(rs, cfCountry)
    IN  IF t.target = NoRegion THEN {0} ELSE Draws(rs[t.target])

\* a variant: route marks the origin it returns as checked
RouteTouching(cfCountry, draw) ==
    LET res == route(regions, cfCountry, draw)
    IN  /\ last' = [op |-> "route", country |-> cfCountry, draw |-> draw, result |-> res]
        /\ regions' = IF res.ok /\ res.origin # NoOrigin
                      THEN [regions EXCEPT ![res.region].origins[res.origin].lastCheck = now + 1]
                      ELSE regions
        /\ UNCHANGED <<now, sweep, kvRegions>>
        /\ UNCHANGED replVars
        /\ UNCHANGED cacheVars
        /\ UNCHANGED frontVars

Route(cfCountry, draw) ==
    /\ last' = [op |-> "route", country |-> cfCountry, draw |-> draw,
                result |-> route(regions, cfCountry, draw)]
    /\ UNCHANGED <<regions, now, sweep, kvRegions>>
    /\ UNCHANGED replVars
    /\ UNCHANGED cacheVars
    /\ UNCHANGED frontVars

RouteAny ==
    \E c \in RequestCountries : \E d \in RouteDraws(regions, c) : Route(c, d)

----------------------------------------------------------------------------
(* MultiRegionRouter: the health monitor *)

\* no call of performHealthChecks is running; probed is history: the probes of the
\* running call, in order
IdleSweep ==
    [phase |-> "idle", ri |-> 0, oi |-> 0, healthyCount |-> 0, totalLatency |-> 0,
     results |-> <<>>, probed |-> <<>>]

\* the position s of a call together with the probes it has made
Tracking(s, log) ==
    [phase |-> s.phase, ri |-> s.ri, oi |-> s.oi, healthyCount |-> s.healthyCount,
     totalLatency |-> s.totalLatency, results |-> s.results, probed |-> log]

\* the RegionHealthStatus performHealthChecks records for a region; avgLatencyMs is
\* the quotient avgNum / avgDen
SweepStatus(rs, ri, hc, tl, t) ==
    [regionId |-> rs[ri].id, healthy |-> hc > 0, availableOrigins |-> hc,
     totalOrigins |-> Len(rs[ri].origins),
     avgNum |-> IF hc > 0 THEN tl ELSE 0, avgDen |-> IF hc > 0 THEN hc ELSE 1,
     lastCheck |-> t]

RECURSIVE Settle(_, _, _, _, _, _, _)
\* Runs the two loops from origin oi of region ri up to the next await: the fetch of
\* an origin, or the kv.put of saveRegions once every region has its result.
Settle(rs, ri, oi, hc, tl, results, t) ==
    IF ri > Len(rs)
    THEN [phase |-> "save", ri |-> 0, oi |-> 0, healthyCount |-> 0, totalLatency |-> 0,
          results |-> results]
    ELSE IF oi <= Len(rs[ri].origins)
    THEN [phase |-> "probe", ri |-> ri, oi |-> oi, healthyCount |-> hc,
          totalLatency |-> tl, results |-> results]
    ELSE Settle(rs, ri + 1, 1, 0, 0, Append(results, SweepStatus(rs, ri, hc, tl, t)), t)

StartSweep ==
    /\ sweep.phase = "idle"
    /\ sweep' = Tracking(Settle(regions, 1, 1, 0, 0, <<>>, now), <<>>)
    /\ last' = [op |-> "startSweep"]
    /\ UNCHANGED <<regions, now, kvRegions>>
    /\ UNCHANGED replVars
    /\ UNCHANGED cacheVars
    /\ UNCHANGED frontVars

ProbeTimes == {1, 2}     \* what Date.now() - start can be, within the model's clock

ProbeOutcomes == {"ok", "notOk", "throw"}

\* a variant: a successful probe leaves the failure counter alone
ProbedKeepingCount(o, outcome, elapsed, t) ==
    IF outcome = "ok"
    THEN [o EXCEPT !.latencyMs = elapsed, !.healthy = TRUE, !.lastCheck = t]
    ELSE IF outcome = "notOk"
    THEN [o EXCEPT !.latencyMs = elapsed,
                   !.consecutiveFailures = @ + 1,
                   !.healthy = (o.consecutiveFailures + 1 < FailureThreshold),
                   !.lastCheck = t]
    ELSE [o EXCEPT !.consecutiveFailures = @ + 1, !.healthy = FALSE,
                   !.latencyMs = SentinelLatency, !.lastCheck = t]

\* the origin after the body of the inner loop: response.ok, !response.ok, or the
\* catch branch (fetch rejected: connection failure or the 5 s timeout)
Probed(o, outcome, elapsed, t) ==
    IF outcome = "ok"
    THEN [o EXCEPT !.latencyMs = elapsed, !.healthy = TRUE,
                   !.consecutiveFailures = 0, !.lastCheck = t]
    ELSE IF outcome = "notOk"
    THEN [o EXCEPT !.latencyMs = elapsed,
                   !.consecutiveFailures = @ + 1,
                   !.healthy = (o.consecutiveFailures + 1 < FailureThreshold),
                   !.lastCheck = t]
    ELSE [o EXCEPT !.consecutiveFailures = @ + 1, !.healthy = FALSE,
                   !.latencyMs = SentinelLatency, !.lastCheck = t]

\* a variant: a probe that throws ends the sweep, performHealthChecks rejects
ProbeAborting(outcome, elapsed) ==
    /\ sweep.phase = "probe"
    /\ now + elapsed <= MaxTime
    /\ LET ri == sweep.ri
           oi == sweep.oi
           o  == regions[ri].origins[oi]
           t  == now + elapsed
           rs == [regions EXCEPT ![ri].origins[oi] = Probed(o, outcome, elapsed, t)]
           hc == sweep.healthyCount + (IF outcome = "ok" THEN 1 ELSE 0)
           tl == sweep.totalLatency + (IF outcome = "throw" THEN 0 ELSE elapsed)
       IN  /\ outcome # "ok" => o.consecutiveFailures < MaxFailures
           /\ regions' = rs
           /\ now' = t
           /\ sweep' = IF outcome = "throw" THEN IdleSweep
                        ELSE Tracking(Settle(rs, ri, oi + 1, hc, tl, sweep.results, t),
                                      Append(sweep.probed,
                                             [region |-> ri, origin |-> oi,
                                              outcome |-> outcome]))
           /\ last' = [op |-> "probe", region |-> ri, origin |-> oi,
                       outcome |-> outcome, before |-> o]
    /\ UNCHANGED kvRegions
    /\ UNCHANGED replVars
    /\ UNCHANGED cacheVars
    /\ UNCHANGED frontVars

Probe(outcome, elapsed) ==
    /\ sweep.phase = "probe"
    /\ now + elapsed <= MaxTime
    /\ LET ri == sweep.ri
           oi == sweep.oi
           o  == regions[ri].origins[oi]
           t  == now + elapsed
           rs == [regions EXCEPT ![ri].origins[oi] = Probed(o, outcome, elapsed, t)]
           hc == sweep.healthyCount + (IF outcome = "ok" THEN 1 ELSE 0)
           tl == sweep.totalLatency + (IF outcome = "throw" THEN 0 ELSE elapsed)
       IN  /\ outcome # "ok" => o.consecutiveFailures < MaxFailures
           /\ regions' = rs
           /\ now' = t
           /\ sweep' = Tracking(Settle(rs, ri, oi + 1, hc, tl, sweep.results, t),
                                Append(sweep.probed,
                                       [region |-> ri, origin |-> oi, outcome |-> outcome]))
           /\ last' = [op |-> "probe", region |-> ri, origin |-> oi,
                       outcome |-> outcome, before |-> o]
    /\ UNCHANGED kvRegions
    /\ UNCHANGED replVars
    /\ UNCHANGED cacheVars
    /\ UNCHANGED frontVars

ProbeAny == \E oc \in ProbeOutcomes : \E e \in ProbeTimes : Probe(oc, e)

\* saveRegions' kv.put resolves: the directory is persisted and the sweep returns
SweepSaved ==
    /\ sweep.phase = "save"
    /\ kvRegions' = <<stringifyRegions(regions)>>
    /\ last' = [op |-> "performHealthChecks", ok |-> TRUE, results |-> sweep.results,
                probed |-> sweep.probed]
    /\ sweep' = IdleSweep
    /\ UNCHANGED <<regions, now>>
    /\ UNCHANGED replVars
    /\ UNCHANGED cacheVars
    /\ UNCHANGED frontVars

\* saveRegions' kv.put rejects: performHealthChecks rejects with the store's error
SweepSaveFailed ==
    /\ sweep.phase = "save"
    /\ last' = [op |-> "performHealthChecks", ok |-> FALSE, results |-> <<>>,
                probed |-> sweep.probed]
    /\ sweep' = IdleSweep
    /\ UNCHANGED <<regions, now, kvRegions>>
    /\ UNCHANGED replVars
    /\ UNCHANGED cacheVars
    /\ UNCHANGED frontVars

MinusInfinity == -1      \* Math.max() of no lastCheck at all

RECURSIVE MaxOf(_)
MaxOf(s) ==
    IF s = <<>> THEN MinusInfinity
    ELSE LET m == MaxOf(Tail(s)) IN IF Head(s) > m THEN Head(s) ELSE m

\* getHealthStatus(): a RegionHealthStatus per region, computed from the origins'
\* flags; avgLatencyMs is the quotient avgNum / avgDen
getHealthStatus(rs) ==
    [i \in 1..Len(rs) |->
        LET n == LatencyCount(rs[i])
        IN  [regionId |-> rs[i].id, healthy |-> n > 0, availableOrigins |-> n,
             totalOrigins |-> Len(rs[i].origins),
             avgNum |-> IF n > 0 THEN LatencySum(rs[i]) ELSE 0,
             avgDen |-> IF n > 0 THEN n ELSE 1,
             lastCheck |-> MaxOf([k \in 1..Len(rs[i].origins) |->
                                     rs[i].origins[k].lastCheck])]]

----------------------------------------------------------------------------
(* CrossRegionReplicator *)

JobTtl == 604800         \* expirationTtl: 86400 * 7

NoTime == 0              \* completedAt is absent

Paths == {"a", "b"}

StoreRegions == {"us-east", "eu-west", "ap-southeast"}

\* `${region}/${path}`
Key(region, path) == <<region, path>>

Keys == {Key(r, p) : r \in StoreRegions, p \in Paths}

Absent == [present |-> FALSE, content |-> <<>>, replicatedFrom |-> "", replicationJobId |-> 0]

\* an object uploaded under a key, not by replication
Uploaded(k) == [present |-> TRUE, content |-> k, replicatedFrom |-> "", replicationJobId |-> 0]

SourceNotFound(path) == [kind |-> "Source not found", path |-> path, target |-> ""]

ReplicateFailed(path, target) ==
    [kind |-> "Failed to replicate", path |-> path, target |-> target]

\* a variant: the percentage is cut off, not rounded
ProgressTruncated(completed, totalPaths) == (100 * completed) \div totalPaths

\* Math.round((completed / totalPaths) * 100)
Progress(completed, totalPaths) == (200 * completed + totalPaths) \div (2 * totalPaths)

TotalPaths(job) == Len(job.paths) * Len(job.targetRegions)

RunAt(pc, pi, ti, completed, content) ==
    [pc |-> pc, pi |-> pi, ti |-> ti, completed |-> completed, content |-> content]

RECURSIVE Proceed(_, _, _, _, _, _)
\* Runs runReplication from target ti of path pi (ti = 0: before the path's get) up
\* to its next await: a bucket.get, a bucket.put, or the kv.put of the final record.
\* Gives the job and the position of the run.
Proceed(job, pi, ti, completed, content, t) ==
    IF pi > Len(job.paths)
    THEN [job |-> [job EXCEPT !.status = IF Len(job.errors) > 0 THEN "failed" ELSE "completed",
                              !.completedAt = t],
          run |-> RunAt("persist", pi, 0, completed, <<>>)]
    ELSE IF ti = 0
    THEN [job |-> job, run |-> RunAt("get", pi, 0, completed, <<>>)]
    ELSE IF ti <= Len(job.targetRegions)
    THEN [job |-> job, run |-> RunAt("put", pi, ti, completed, content)]
    ELSE Proceed(job, pi + 1, 0, completed, <<>>, t)

\* the statuses assigned by a step that takes the job from status before to after
Assigned(log, before, after) == IF before = after THEN log ELSE Append(log, after)

JobRequests ==
    { [sourceRegion |-> "us-east", targetRegions |-> <<"eu-west", "ap-southeast">>,
       paths |-> <<"a", "b">>],
      [sourceRegion |-> "eu-west", targetRegions |-> <<"us-east">>, paths |-> <<"a">>],
      [sourceRegion |-> "us-east", targetRegions |-> <<>>, paths |-> <<"a">>],
      [sourceRegion |-> "us-east", targetRegions |-> <<"eu-west">>, paths |-> <<>>] }

\* startReplication, up to its return: the job is created and registered, and
\* runReplication(job) is called without await, so it runs up to its first await
\* before startReplication returns the job. The clock moves on by one between two
\* calls.
StartReplication(req) ==
    /\ Len(jobs) < MaxJobs
    /\ now + 1 <= MaxTime
    /\ LET id  == Len(jobs) + 1
           job == [id |-> id, sourceRegion |-> req.sourceRegion,
                   targetRegions |-> req.targetRegions, paths |-> req.paths,
                   status |-> "pending", progress |-> 0, startedAt |-> now,
                   completedAt |-> NoTime, errors |-> <<>>]
           p   == Proceed([job EXCEPT !.status = "running"], 1, 0, 0, <<>>, now)
       IN  /\ jobs' = Append(jobs, p.job)
           /\ run' = Append(run, p.run)
           /\ statusLog' = Append(statusLog,
                                  Assigned(<<"pending", "running">>, "running", p.job.status))
           /\ returned' = Append(returned, p.job)
           /\ storeLog' = Append(storeLog, <<>>)
           /\ last' = [op |-> "startReplication", id |-> id]
    /\ now' = now + 1
    /\ UNCHANGED <<bucket, kvJobs, faults>>
    /\ UNCHANGED routerVars
    /\ UNCHANGED cacheVars
    /\ UNCHANGED frontVars

\* a store call of a run: bucket.get, bucket.put or kv.put, and how it settled
Call(op, path, target, outcome) ==
    [op |-> op, path |-> path, target |-> target, outcome |-> outcome]

Logged(id, call) == storeLog' = [storeLog EXCEPT ![id] = Append(@, call)]

\* the job and the run after a step of job id that leaves them as p
\* a variant: the runs share one progress, each write sets it on every job
SteppedSharingProgress(id, p) ==
    /\ jobs' = [j \in 1..Len(jobs) |->
                   IF j = id THEN p.job
                   ELSE [jobs[j] EXCEPT !.progress = p.job.progress]]
    /\ run' = [run EXCEPT ![id] = p.run]
    /\ statusLog' = [statusLog EXCEPT ![id] = Assigned(@, jobs[id].status, p.job.status)]
    /\ UNCHANGED returned

Stepped(id, p) ==
    /\ jobs' = [jobs EXCEPT ![id] = p.job]
    /\ run' = [run EXCEPT ![id] = p.run]
    /\ statusLog' = [statusLog EXCEPT ![id] = Assigned(@, jobs[id].status, p.job.status)]
    /\ UNCHANGED returned

\* a variant: a missing source ends the loop over the paths
GetSourceAborting(id) ==
    /\ id \in 1..Len(jobs)
    /\ run[id].pc = "get"
    /\ LET job  == jobs[id]
           path == job.paths[run[id].pi]
           obj  == bucket[Key(job.sourceRegion, path)]
       IN  /\ IF obj.present
              THEN Stepped(id, Proceed(job, run[id].pi, 1, run[id].completed, obj.content, now))
              ELSE Stepped(id, Proceed([job EXCEPT !.errors = Append(@, SourceNotFound(path))],
                                       Len(job.paths) + 1, 0, run[id].completed, <<>>, now))
           /\ Logged(id, Call("get", path, "", IF obj.present THEN "object" ELSE "null"))
    /\ UNCHANGED <<now, last, bucket, kvJobs, faults>>
    /\ UNCHANGED routerVars
    /\ UNCHANGED cacheVars
    /\ UNCHANGED frontVars

\* bucket.get resolves: with the object (arrayBuffer and httpMetadata are read), or
\* with null
GetSource(id) ==
    /\ id \in 1..Len(jobs)
    /\ run[id].pc = "get"
    /\ LET job  == jobs[id]
           path == job.paths[run[id].pi]
           obj  == bucket[Key(job.sourceRegion, path)]
       IN  /\ IF obj.present
              THEN Stepped(id, Proceed(job, run[id].pi, 1, run[id].completed, obj.content, now))
              ELSE Stepped(id, Proceed([job EXCEPT !.errors = Append(@, SourceNotFound(path))],
                                       run[id].pi + 1, 0, run[id].completed, <<>>, now))
           /\ Logged(id, Call("get", path, "", IF obj.present THEN "object" ELSE "null"))
    /\ UNCHANGED <<now, last, bucket, kvJobs, faults>>
    /\ UNCHANGED routerVars
    /\ UNCHANGED cacheVars
    /\ UNCHANGED frontVars

\* bucket.get or arrayBuffer rejects: nothing catches it, the run ends there
GetSourceRejected(id) ==
    /\ id \in 1..Len(jobs)
    /\ run[id].pc = "get"
    /\ faults < MaxFaults
    /\ faults' = faults + 1
    /\ run' = [run EXCEPT ![id].pc = "rejected"]
    /\ Logged(id, Call("get", jobs[id].paths[run[id].pi], "", "rejected"))
    /\ UNCHANGED <<now, last, bucket, kvJobs, jobs, statusLog, returned>>
    /\ UNCHANGED routerVars
    /\ UNCHANGED cacheVars
    /\ UNCHANGED frontVars

\* a variant: a write that fails ends the loops, the remaining writes are skipped
PutTargetStopping(id, ok) ==
    /\ id \in 1..Len(jobs)
    /\ run[id].pc = "put"
    /\ ~ok => faults < MaxFaults
    /\ faults' = IF ok THEN faults ELSE faults + 1
    /\ LET job    == jobs[id]
           path   == job.paths[run[id].pi]
           target == job.targetRegions[run[id].ti]
           done   == run[id].completed + 1
           after  == [job EXCEPT !.errors = IF ok THEN @
                                            ELSE Append(@, ReplicateFailed(path, target)),
                                 !.progress = Progress(done, TotalPaths(job))]
       IN  /\ Stepped(id, IF ok
                          THEN Proceed(after, run[id].pi, run[id].ti + 1, done,
                                       run[id].content, now)
                          ELSE Proceed(after, Len(job.paths) + 1, 0, done, <<>>, now))
           /\ Logged(id, Call("put", path, target, IF ok THEN "ok" ELSE "rejected"))
           /\ bucket' = IF ok
                         THEN [bucket EXCEPT ![Key(target, path)] =
                                  [present |-> TRUE, content |-> run[id].content,
                                   replicatedFrom |-> job.sourceRegion,
                                   replicationJobId |-> job.id]]
                         ELSE bucket
    /\ UNCHANGED <<now, last, kvJobs>>
    /\ UNCHANGED routerVars
    /\ UNCHANGED cacheVars
    /\ UNCHANGED frontVars

\* bucket.put resolves (ok) or rejects (~ok, caught: an error is recorded)
PutTarget(id, ok) ==
    /\ id \in 1..Len(jobs)
    /\ run[id].pc = "put"
    /\ ~ok => faults < MaxFaults
    /\ faults' = IF ok THEN faults ELSE faults + 1
    /\ LET job    == jobs[id]
           path   == job.paths[run[id].pi]
           target == job.targetRegions[run[id].ti]
           done   == run[id].completed + 1
           after  == [job EXCEPT !.errors = IF ok THEN @
                                            ELSE Append(@, ReplicateFailed(path, target)),
                                 !.progress = Progress(done, TotalPaths(job))]
       IN  /\ Stepped(id, Proceed(after, run[id].pi, run[id].ti + 1, done,
                                   run[id].content, now))
           /\ Logged(id, Call("put", path, target, IF ok THEN "ok" ELSE "rejected"))
           /\ bucket' = IF ok
                         THEN [bucket EXCEPT ![Key(target, path)] =
                                  [present |-> TRUE, content |-> run[id].content,
                                   replicatedFrom |-> job.sourceRegion,
                                   replicationJobId |-> job.id]]
                         ELSE bucket
    /\ UNCHANGED <<now, last, kvJobs>>
    /\ UNCHANGED routerVars
    /\ UNCHANGED cacheVars
    /\ UNCHANGED frontVars

\* the properties of a job record in the order they are created: those of the
\* object literal of startReplication, then completedAt
JobFields ==
    <<"id", "sourceRegion", "targetRegions", "paths", "status", "progress", "startedAt",
      "errors", "completedAt">>

\* JSON.stringify(job): the properties that are defined, each with its value, in
\* the order of their creation
stringify(job) ==
    LET defined == SelectSeq(JobFields, LAMBDA f : ~(f = "completedAt" /\ job[f] = NoTime))
    IN  [i \in 1..Len(defined) |-> <<defined[i], job[defined[i]]>>]

\* a variant: once the record is stored the job is marked completed
PersistMarking(id) ==
    /\ id \in 1..Len(jobs)
    /\ run[id].pc = "persist"
    /\ kvJobs' = kvJobs \cup {[key |-> id, value |-> stringify(jobs[id]),
                                expirationTtl |-> JobTtl]}
    /\ run' = [run EXCEPT ![id].pc = "done"]
    /\ Logged(id, Call("persist", "", "", "ok"))
    /\ jobs' = [jobs EXCEPT ![id].status = "completed"]
    /\ statusLog' = [statusLog EXCEPT ![id] = Assigned(@, jobs[id].status, "completed")]
    /\ UNCHANGED <<now, last, bucket, returned, faults>>
    /\ UNCHANGED routerVars
    /\ UNCHANGED cacheVars
    /\ UNCHANGED frontVars

\* a variant: the record is stored for one day
PersistOneDay(id) ==
    /\ id \in 1..Len(jobs)
    /\ run[id].pc = "persist"
    /\ kvJobs' = kvJobs \cup {[key |-> id, value |-> stringify(jobs[id]),
                                expirationTtl |-> JobTtl \div 7]}
    /\ run' = [run EXCEPT ![id].pc = "done"]
    /\ Logged(id, Call("persist", "", "", "ok"))
    /\ UNCHANGED <<now, last, bucket, jobs, statusLog, returned, faults>>
    /\ UNCHANGED routerVars
    /\ UNCHANGED cacheVars
    /\ UNCHANGED frontVars

\* the kv.put of the final record resolves: the record is stored for 7 days
Persist(id) ==
    /\ id \in 1..Len(jobs)
    /\ run[id].pc = "persist"
    /\ kvJobs' = kvJobs \cup {[key |-> id, value |-> stringify(jobs[id]),
                                expirationTtl |-> JobTtl]}
    /\ run' = [run EXCEPT ![id].pc = "done"]
    /\ Logged(id, Call("persist", "", "", "ok"))
    /\ UNCHANGED <<now, last, bucket, jobs, statusLog, returned, faults>>
    /\ UNCHANGED routerVars
    /\ UNCHANGED cacheVars
    /\ UNCHANGED frontVars

\* the kv.put of the final record rejects: the run ends, nothing is stored
PersistRejected(id) ==
    /\ id \in 1..Len(jobs)
    /\ run[id].pc = "persist"
    /\ faults < MaxFaults
    /\ faults' = faults + 1
    /\ run' = [run EXCEPT ![id].pc = "rejected"]
    /\ Logged(id, Call("persist", "", "", "rejected"))
    /\ UNCHANGED <<now, last, bucket, kvJobs, jobs, statusLog, returned>>
    /\ UNCHANGED routerVars
    /\ UNCHANGED cacheVars
    /\ UNCHANGED frontVars

\* getJobStatus(jobId): the record of the job table, undefined (NoJob) if there is none
NoJob == [id |-> 0]

getJobStatus(jobId) == IF jobId \in 1..Len(jobs) THEN jobs[jobId] ELSE NoJob

DefaultLimit == 50       \* listJobs(limit: number = 50)

RECURSIVE sortByStartedAt(_)
\* jobs.sort((a, b) => b.startedAt - a.startedAt): a stable sort, so a record goes
\* behind every record placed before it that does not start earlier
sortByStartedAt(s) ==
    IF s = <<>> THEN <<>>
    ELSE LET x      == s[Len(s)]
             sorted == sortByStartedAt(SubSeq(s, 1, Len(s) - 1))
             ahead  == SelectSeq(sorted, LAMBDA e : x.startedAt - e.startedAt <= 0)
             behind == SelectSeq(sorted, LAMBDA e : x.startedAt - e.startedAt > 0)
         IN  ahead \o <<x>> \o behind

\* a variant: the records are returned in the order of their keys
listJobsUnsorted(keys) ==
    LET data(k) == parseJson((CHOOSE rec \in kvJobs : rec.key = k).value)
    IN  [i \in 1..Len(keys) |-> data(keys[i])]

\* what listJobs returns when kv.list gives keys: the record of each key, sorted
listJobs(keys) ==
    LET data(k) == parseJson((CHOOSE rec \in kvJobs : rec.key = k).value)
    IN  sortByStartedAt([i \in 1..Len(keys) |-> data(keys[i])])

\* what kv.list({prefix: 'replication:', limit}) can give: the first keys, up to
\* limit, in the order of their names; the names are random UUIDs, so any order
\* of the stored keys is the order of their names
ListedKeys(limit) ==
    LET stored == {rec.key : rec \in kvJobs}
        n      == IF Cardinality(stored) < limit THEN Cardinality(stored) ELSE limit
    IN  {ks \in [1..n -> stored] : \A i, j \in 1..n : ks[i] = ks[j] => i = j}

\* a limit that cuts the list short, and the default
ListLimits == {1, DefaultLimit}

\* listJobs(limit) with every store call resolving. A stored record is written once
\* and never changed, so the kv.get of a listed key gives the same record whenever
\* it resolves: the call is one step.
ListJobs(limit) ==
    /\ \E keys \in ListedKeys(limit) :
          last' = [op |-> "listJobs", ok |-> TRUE, limit |-> limit, keys |-> keys,
                   result |-> listJobs(keys)]
    /\ UNCHANGED now
    /\ UNCHANGED replVars
    /\ UNCHANGED routerVars
    /\ UNCHANGED cacheVars
    /\ UNCHANGED frontVars

\* kv.list or a kv.get rejects: listJobs rejects with the store's error
ListJobsRejected(limit) ==
    /\ last' = [op |-> "listJobs", ok |-> FALSE, limit |-> limit, keys |-> <<>>,
                result |-> <<>>]
    /\ UNCHANGED now
    /\ UNCHANGED replVars
    /\ UNCHANGED routerVars
    /\ UNCHANGED cacheVars
    /\ UNCHANGED frontVars

----------------------------------------------------------------------------
(* GeoCacheManager *)

\* the characters of the strings that the cache family uses as region ids and paths
Text(str) ==
    CASE str = ""    -> <<>>
      [] str = "a"   -> <<"a">>
      [] str = "b"   -> <<"b">>
      [] str = "c"   -> <<"c">>
      [] str = ":"   -> <<":">>
      [] str = "a:"  -> <<"a", ":">>
      [] str = ":a"  -> <<":", "a">>
      [] str = "a:b" -> <<"a", ":", "b">>
      [] str = "b:c" -> <<"b", ":", "c">>

CachePrefix == <<"c", "a", "c", "h", "e", ":">>

\* a variant: the key does not name the region
getCacheKeyUnscoped(path, region) == CachePrefix \o Text(path)

\* `cache:${region}:${path}`, as the sequence of its characters
getCacheKey(path, region) == CachePrefix \o Text(region) \o <<":">> \o Text(path)

DefaultTtl == 3600       \* ttl: number = 3600

ContentType == "text/plain"

Null == [null |-> TRUE]  \* kv.get of a key that is not stored; what getCached returns on a miss

CacheEntryFields == <<"body", "contentType", "etag", "cachedAt">>

\* JSON.stringify({body, contentType, etag, cachedAt})
stringifyEntry(e) ==
    [i \in 1..Len(CacheEntryFields) |-> <<CacheEntryFields[i], e[CacheEntryFields[i]]>>]

\* kv.get(key, 'json')
KvGet(kv, key) ==
    IF \E rec \in kv : rec.key = key
    THEN parseJson((CHOOSE rec \in kv : rec.key = key).value)
    ELSE Null

\* kv.put(key, value, {expirationTtl}): the value stored under the key is replaced
KvPut(kv, key, value, ttl) ==
    {rec \in kv : rec.key # key} \cup {[key |-> key, value |-> value, expirationTtl |-> ttl]}

\* kv.delete(key)
KvDelete(kv, key) == {rec \in kv : rec.key # key}

\* the store after the kv.put of cache(path, regionId, content, contentType, ttl) at t
Cached(kv, path, regionId, content, contentType, ttl, t) ==
    KvPut(kv, getCacheKey(path, regionId),
          stringifyEntry([body |-> content, contentType |-> contentType, etag |-> t,
                          cachedAt |-> t]),
          ttl)

\* what getCached(path, request, cf) returns (ok) or rejects with (~ok) when the
\* store answers the read
getCached(rs, kv, path, cfCountry, draw) ==
    LET routing == route(rs, cfCountry, draw)
    IN  IF ~routing.ok
        THEN [ok |-> FALSE, error |-> routing.error, value |-> Null]
        ELSE LET id     == rs[routing.region].id
                 cached == KvGet(kv, getCacheKey(path, id))
             IN  [ok |-> TRUE, error |-> "",
                  value |-> IF cached # Null
                            THEN [content |-> cached.body,
                                  contentType |-> cached.contentType,
                                  regionId |-> id]
                            ELSE Null]

\* Array.from(this.regionRouter['regions'].keys())
RegionKeys(rs) == [i \in 1..Len(rs) |-> rs[i].id]

CacheRegionIds == {"a", "a:b"}

CachePaths == {"c", "b:c"}

Contents == {"x", "y"}

NoContent == ""          \* the pair has no entry

IdleGeo ==
    [phase |-> "idle", path |-> "", content |-> "", ids |-> <<>>, i |-> 0, purged |-> 0,
     log |-> <<>>, alone |-> TRUE]

\* the history of the pairs after content is cached for (regionId, path)
Noted(regionId, path, content) ==
    IF <<regionId, path>> \in DOMAIN entries
    THEN [entries EXCEPT ![<<regionId, path>>] = content]
    ELSE entries

\* a running warmCache is no longer alone with the store
Disturbed == IF geo.phase = "warm" THEN [geo EXCEPT !.alone = FALSE] ELSE geo

\* cache(path, regionId, content, contentType, ttl): its kv.put resolves (ok) or
\* rejects (~ok)
Cache(path, regionId, content, ok) ==
    /\ kvCache' = IF ok
                  THEN Cached(kvCache, path, regionId, content, ContentType, DefaultTtl, now)
                  ELSE kvCache
    /\ entries' = IF ok THEN Noted(regionId, path, content) ELSE entries
    /\ geo' = IF ok THEN Disturbed ELSE geo
    /\ last' = [op |-> "cache", ok |-> ok, path |-> path, region |-> regionId,
                content |-> content]
    /\ UNCHANGED now
    /\ UNCHANGED routerVars
    /\ UNCHANGED replVars
    /\ UNCHANGED frontVars

\* getCached(path, request, cf): route decides or throws, then kv.get resolves
\* (readOk) or rejects
GetCached(path, cfCountry, draw, readOk) ==
    /\ LET res == getCached(regions, kvCache, path, cfCountry, draw)
       IN  last' = [op |-> "getCached", path |-> path, country |-> cfCountry,
                    result |-> IF res.ok /\ ~readOk
                               THEN [ok |-> FALSE, error |-> "kv.get", value |-> Null]
                               ELSE res]
    /\ UNCHANGED now
    /\ UNCHANGED routerVars
    /\ UNCHANGED replVars
    /\ UNCHANGED cacheVars
    /\ UNCHANGED frontVars

\* the running call at its kv call for region i of ids
GeoAt(phase, path, content, ids, i, purged, log, alone) ==
    [phase |-> phase, path |-> path, content |-> content, ids |-> ids, i |-> i,
     purged |-> purged, log |-> log, alone |-> alone]

\* purge(path) is called: it runs up to the kv.delete of the first region, or
\* returns 0 when the directory is empty
PurgeStart(path) ==
    /\ geo.phase = "idle"
    /\ LET ids == RegionKeys(regions)
       IN  IF Len(ids) = 0
           THEN /\ geo' = IdleGeo
                /\ last' = [op |-> "purge", ok |-> TRUE, path |-> path, ids |-> ids,
                            purged |-> 0, log |-> <<>>]
           ELSE /\ geo' = GeoAt("purge", path, "", ids, 1, 0, <<>>, TRUE)
                /\ UNCHANGED last
    /\ UNCHANGED <<now, kvCache, entries>>
    /\ UNCHANGED routerVars
    /\ UNCHANGED replVars
    /\ UNCHANGED frontVars

\* the kv.delete of purge resolves (ok): the loop goes on, and returns the count
\* after the last region; or it rejects (~ok): nothing catches it, purge rejects
PurgeDelete(ok) ==
    /\ geo.phase = "purge"
    /\ LET id  == geo.ids[geo.i]
           log == Append(geo.log, [region |-> id, ok |-> ok])
       IN  IF ok
           THEN /\ kvCache' = KvDelete(kvCache, getCacheKey(geo.path, id))
                /\ entries' = Noted(id, geo.path, NoContent)
                /\ IF geo.i = Len(geo.ids)
                   THEN /\ geo' = IdleGeo
                        /\ last' = [op |-> "purge", ok |-> TRUE, path |-> geo.path,
                                    ids |-> geo.ids, purged |-> geo.purged + 1,
                                    log |-> log]
                   ELSE /\ geo' = [geo EXCEPT !.i = @ + 1, !.purged = @ + 1, !.log = log]
                        /\ UNCHANGED last
           ELSE /\ geo' = IdleGeo
                /\ last' = [op |-> "purge", ok |-> FALSE, path |-> geo.path,
                            ids |-> geo.ids, purged |-> geo.purged, log |-> log]
                /\ UNCHANGED <<kvCache, entries>>
    /\ UNCHANGED now
    /\ UNCHANGED routerVars
    /\ UNCHANGED replVars
    /\ UNCHANGED frontVars

\* warmCache(path, content, contentType, ttl) is called: it runs up to the kv.put
\* of the first region's cache call, or returns [] when the directory is empty
WarmStart(path, content) ==
    /\ geo.phase = "idle"
    /\ LET ids == RegionKeys(regions)
       IN  IF Len(ids) = 0
           THEN /\ geo' = IdleGeo
                /\ last' = [op |-> "warmCache", ok |-> TRUE, path |-> path,
                            content |-> content, result |-> ids, log |-> <<>>,
                            alone |-> TRUE]
           ELSE /\ geo' = GeoAt("warm", path, content, ids, 1, 0, <<>>, TRUE)
                /\ UNCHANGED last
    /\ UNCHANGED <<now, kvCache, entries>>
    /\ UNCHANGED routerVars
    /\ UNCHANGED replVars
    /\ UNCHANGED frontVars

\* a variant: warmCache writes the first region's partition only
WarmPutFirstOnly(ok) ==
    /\ geo.phase = "warm"
    /\ LET id  == geo.ids[geo.i]
           log == Append(geo.log, [region |-> id, ok |-> ok])
       IN  /\ kvCache' = IF ok /\ geo.i = 1
                         THEN Cached(kvCache, geo.path, id, geo.content, ContentType,
                                     DefaultTtl, now)
                         ELSE kvCache
           /\ entries' = IF ok /\ geo.i = 1 THEN Noted(id, geo.path, geo.content) ELSE entries
           /\ IF ok /\ geo.i < Len(geo.ids)
              THEN /\ geo' = [geo EXCEPT !.i = @ + 1, !.log = log]
                   /\ UNCHANGED last
              ELSE /\ geo' = IdleGeo
                   /\ last' = [op |-> "warmCache", ok |-> ok, path |-> geo.path,
                               content |-> geo.content,
                               result |-> IF ok THEN geo.ids ELSE <<>>, log |-> log,
                               alone |-> geo.alone]
    /\ UNCHANGED now
    /\ UNCHANGED routerVars
    /\ UNCHANGED replVars
    /\ UNCHANGED frontVars

\* the kv.put of warmCache's cache call resolves (ok): the loop goes on, and
\* returns the region ids after the last region; or it rejects (~ok): warmCache
\* rejects
WarmPut(ok) ==
    /\ geo.phase = "warm"
    /\ LET id  == geo.ids[geo.i]
           log == Append(geo.log, [region |-> id, ok |-> ok])
       IN  /\ kvCache' = IF ok
                         THEN Cached(kvCache, geo.path, id, geo.content, ContentType,
                                     DefaultTtl, now)
                         ELSE kvCache
           /\ entries' = IF ok THEN Noted(id, geo.path, geo.content) ELSE entries
           /\ IF ok /\ geo.i < Len(geo.ids)
              THEN /\ geo' = [geo EXCEPT !.i = @ + 1, !.log = log]
                   /\ UNCHANGED last
              ELSE /\ geo' = IdleGeo
                   /\ last' = [op |-> "warmCache", ok |-> ok, path |-> geo.path,
                               content |-> geo.content,
                               result |-> IF ok THEN geo.ids ELSE <<>>, log |-> log,
                               alone |-> geo.alone]
    /\ UNCHANGED now
    /\ UNCHANGED routerVars
    /\ UNCHANGED replVars
    /\ UNCHANGED frontVars

\* getCacheKey(path, region) is called; prev is history: the call before it
GetCacheKey(path, region) ==
    /\ last' = [op |-> "getCacheKey", path |-> path, region |-> region,
                key |-> getCacheKey(path, region),
                prev |-> IF last.op = "getCacheKey"
                         THEN [path |-> last.path, region |-> last.region, key |-> last.key]
                         ELSE Null]
    /\ UNCHANGED now
    /\ UNCHANGED routerVars
    /\ UNCHANGED replVars
    /\ UNCHANGED cacheVars
    /\ UNCHANGED frontVars

----------------------------------------------------------------------------
(* The HTTP front door (src/unnamed/part_001): GET /cdn/* and PUT /cdn/* *)

FrontPaths == {"a", "b"}

EmptyPath == ""          \* the request path is '/cdn/' and nothing more

FrontTtl == 3600         \* parseInt(c.env.DEFAULT_TTL), one value for all deployments

FrontEtag == "v1"        \* object.etag of the objects that are stored

\* If-None-Match: the header is absent, or names the stored objects' etag
IfNoneMatch == {"", FrontEtag}

NoAsset == [present |-> FALSE, body |-> "", contentType |-> "", etag |-> ""]

\* the object uploaded under a path, without a content type of its own
Asset(path) ==
    [present |-> TRUE, body |-> path, contentType |-> "application/octet-stream",
     etag |-> FrontEtag]

\* `cache:${path}`
frontKey(path) == CachePrefix \o Text(path)

\* JSON.stringify of a CacheEntry
stringifyHits(e) ==
    LET fields == <<"body", "contentType", "etag", "createdAt", "hits">>
    IN  [i \in 1..Len(fields) |-> <<fields[i], e[fields[i]]>>]

\* a request as it arrives, at pc: cached will be the entry or the object it holds;
\* history: after tells whether an upload to its path had completed before
Req(method, pc, path, inm, after) ==
    [method |-> method, pc |-> pc, path |-> path, inm |-> inm, cached |-> Null,
     after |-> after]

\* history: an upload to the path has returned its response
UploadCompleted(path) ==
    \E u \in 1..Len(reqs) :
        reqs[u].method = "PUT" /\ reqs[u].path = path /\ reqs[u].pc = "done"

\* the response to GET request r, with the body it carries
Response(r, status, xCache, hits, body) ==
    [op |-> "GET", path |-> r.path, status |-> status, xCache |-> xCache, hits |-> hits,
     body |-> body, after |-> r.after]

\* history: whether request r writes the entry of its path while no other request
\* holds what it read of that entry before this write
Unraced(r) ==
    \A o \in 1..Len(reqs) :
        (o # r /\ reqs[o].path = reqs[r].path) =>
            reqs[o].pc \notin {"hitPut", "assetGet", "missPut"}

\* a request arrives and runs up to its first await: the 400 for an empty path, or
\* the kv.get of the entry
GetRequest(path, inm) ==
    /\ Len(reqs) < MaxClients
    /\ IF path = EmptyPath
       THEN /\ reqs' = Append(reqs, Req("GET", "done", path, inm, FALSE))
            /\ last' = Response(Req("GET", "done", path, inm, FALSE), 400, "", 0, "")
       ELSE /\ reqs' = Append(reqs, Req("GET", "cacheGet", path, inm, UploadCompleted(path)))
            /\ UNCHANGED last
    /\ UNCHANGED <<now, kvCache, geo, entries, assets, served>>
    /\ UNCHANGED routerVars
    /\ UNCHANGED replVars

\* kv.get resolves: on an entry its hits are counted up and the kv.put is issued,
\* otherwise the object is asked for
CacheGot(r) ==
    /\ r \in 1..Len(reqs)
    /\ reqs[r].pc = "cacheGet"
    /\ LET cached == KvGet(kvCache, frontKey(reqs[r].path))
       IN  reqs' = [reqs EXCEPT ![r] =
                       IF cached # Null
                       THEN [@ EXCEPT !.pc = "hitPut",
                                      !.cached = [cached EXCEPT !["hits"] = @ + 1]]
                       ELSE [@ EXCEPT !.pc = "assetGet"]]
    /\ UNCHANGED <<now, last, kvCache, geo, entries, assets, served>>
    /\ UNCHANGED routerVars
    /\ UNCHANGED replVars

\* the kv.put of a hit resolves: the entry the request holds is stored and the
\* response is returned, 304 when If-None-Match names the entry's etag
HitPut(r) ==
    /\ r \in 1..Len(reqs)
    /\ reqs[r].pc = "hitPut"
    /\ LET path   == reqs[r].path
           cached == reqs[r].cached
       IN  /\ kvCache' = KvPut(kvCache, frontKey(path), stringifyHits(cached), FrontTtl)
           /\ served' = [served EXCEPT ![path] =
                             [n |-> @.n + 1, alone |-> @.alone /\ Unraced(r)]]
           /\ last' = IF reqs[r].inm # "" /\ reqs[r].inm = cached.etag
                       THEN Response(reqs[r], 304, "", 0, "")
                       ELSE Response(reqs[r], 200, "HIT", cached.hits, cached.body)
    /\ reqs' = [reqs EXCEPT ![r].pc = "done"]
    /\ UNCHANGED <<now, geo, entries, assets>>
    /\ UNCHANGED routerVars
    /\ UNCHANGED replVars

\* ASSETS.get resolves: 404 without an object, otherwise the body is read and the
\* kv.put of the new entry is issued
AssetGot(r) ==
    /\ r \in 1..Len(reqs)
    /\ reqs[r].pc = "assetGet"
    /\ LET object == assets[reqs[r].path]
       IN  IF object.present
           THEN /\ reqs' = [reqs EXCEPT ![r] = [@ EXCEPT !.pc = "missPut", !.cached = object]]
                /\ UNCHANGED last
           ELSE /\ reqs' = [reqs EXCEPT ![r].pc = "done"]
                /\ last' = Response(reqs[r], 404, "", 0, "")
    /\ UNCHANGED <<now, kvCache, geo, entries, assets, served>>
    /\ UNCHANGED routerVars
    /\ UNCHANGED replVars

\* the kv.put of a miss resolves: the entry is created with hits: 1 and the
\* object is returned
MissPut(r) ==
    /\ r \in 1..Len(reqs)
    /\ reqs[r].pc = "missPut"
    /\ LET path   == reqs[r].path
           object == reqs[r].cached
           entry  == [body |-> object.body, contentType |-> object.contentType,
                      etag |-> object.etag, createdAt |-> now, hits |-> 1]
       IN  /\ kvCache' = KvPut(kvCache, frontKey(path), stringifyHits(entry), FrontTtl)
           /\ served' = [served EXCEPT ![path] = [n |-> 1, alone |-> Unraced(r)]]
           /\ last' = Response(reqs[r], 200, "MISS", 0, object.body)
    /\ reqs' = [reqs EXCEPT ![r].pc = "done"]
    /\ UNCHANGED <<now, geo, entries, assets>>
    /\ UNCHANGED routerVars
    /\ UNCHANGED replVars

\* PUT /cdn/<path> arrives: the 400 for an empty path, or the body is read and
\* ASSETS.put is issued
PutRequest(path) ==
    /\ Len(reqs) < MaxClients
    /\ Cardinality({u \in 1..Len(reqs) : reqs[u].method = "PUT"}) < MaxUploads
    /\ IF path = EmptyPath
       THEN /\ reqs' = Append(reqs, Req("PUT", "done", path, "", FALSE))
            /\ last' = [op |-> "PUT", path |-> path, status |-> 400]
       ELSE /\ reqs' = Append(reqs, Req("PUT", "assetPut", path, "", FALSE))
            /\ UNCHANGED last
    /\ UNCHANGED <<now, kvCache, geo, entries, assets, served>>
    /\ UNCHANGED routerVars
    /\ UNCHANGED replVars

\* ASSETS.put resolves: the object of the path is the uploaded one, with a new
\* body and etag; the CACHE.delete of the path's entry is issued
AssetPut(u) ==
    /\ u \in 1..Len(reqs)
    /\ reqs[u].pc = "assetPut"
    /\ assets' = [assets EXCEPT ![reqs[u].path] =
                      [present |-> TRUE, body |-> "uploaded",
                       contentType |-> "application/octet-stream", etag |-> "v2"]]
    /\ reqs' = [reqs EXCEPT ![u].pc = "cacheDelete"]
    /\ UNCHANGED <<now, last, kvCache, geo, entries, served>>
    /\ UNCHANGED routerVars
    /\ UNCHANGED replVars

\* CACHE.delete resolves: the entry is gone and the upload's response is returned
CacheDelete(u) ==
    /\ u \in 1..Len(reqs)
    /\ reqs[u].pc = "cacheDelete"
    /\ kvCache' = KvDelete(kvCache, frontKey(reqs[u].path))
    /\ served' = [served EXCEPT ![reqs[u].path] = [n |-> 0, alone |-> Unraced(u)]]
    /\ last' = [op |-> "PUT", path |-> reqs[u].path, status |-> 200]
    /\ reqs' = [reqs EXCEPT ![u].pc = "done"]
    /\ UNCHANGED <<now, geo, entries, assets>>
    /\ UNCHANGED routerVars
    /\ UNCHANGED replVars

----------------------------------------------------------------------------
(* Initial states *)

NoneServed == [path \in FrontPaths |-> [n |-> 0, alone |-> TRUE]]

\* no request has arrived and nothing is uploaded
FrontIdle ==
    /\ reqs = <<>>
    /\ assets = [path \in FrontPaths |-> NoAsset]
    /\ served = NoneServed

NoEntries == [pair \in CacheRegionIds \X CachePaths |-> NoContent]

CacheIdle ==
    /\ kvCache = {}
    /\ geo = IdleGeo
    /\ entries = NoEntries

EmptyBucket == [k \in Keys |-> Absent]

ReplIdle ==
    /\ jobs = <<>>
    /\ run = <<>>
    /\ bucket = EmptyBucket
    /\ kvJobs = {}
    /\ statusLog = <<>>
    /\ returned = <<>>
    /\ storeLog = <<>>
    /\ faults = 0

Unhealthy == Origin(1, FALSE, SentinelLatency, FailureThreshold)

Healthy(l) == Origin(1, TRUE, l, 0)

\* the origin lists of the routing family: none, all unhealthy, one healthy origin,
\* and two healthy origins behind an unhealthy one whose average latency (20) is
\* below the single origin's and whose sum (40) is above it
RouteOrigins ==
    { <<>>, <<Unhealthy>>, <<Healthy(25)>>, <<Unhealthy, Healthy(30), Healthy(10)>> }

RegionCountrySets == {{"US"}, {"DE"}}

\* a fallback is absent, the first or the second region of the directory (the
\* region itself included), or an id that no region of the directory has
Fallbacks == {NoFallback, RegionIdSeq[1], RegionIdSeq[2], RegionIdSeq[MaxRegions + 1]}

RouteRegions == [cs : RegionCountrySets, fb : Fallbacks, os : RouteOrigins]

\* the directory of n regions that f describes, their ids in the order of RegionIdSeq
RouteDirectory(n, f) ==
    [i \in 1..n |-> Region(RegionIdSeq[i], f[i].cs, f[i].fb, f[i].os)]

\* one region, its origins of every weight and health: the family of selectOrigin
SelectOrigins ==
    {Origin(w, h, 10, IF h THEN 0 ELSE FailureThreshold) : w \in 0..MaxWeight, h \in BOOLEAN}

InitRoute ==
    /\ \/ \E n \in 0..MaxRegions : \E f \in [1..n -> RouteRegions] :
             regions = RouteDirectory(n, f)
       \/ \E os \in SeqsUpTo(SelectOrigins, MaxOrigins) :
             regions = <<Region(RegionIdSeq[1], {"US"}, NoFallback, os)>>
    /\ now = 1
    /\ last = [op |-> "init"]
    /\ sweep = IdleSweep
    /\ kvRegions = NothingPersisted
    /\ ReplIdle
    /\ CacheIdle
    /\ FrontIdle

NextRoute == RouteAny

SpecRoute == InitRoute /\ [][NextRoute]_vars

\* the regions that addRegion is called with in the directory family: two ids, two
\* country sets, without and with a fallback, two priority ranks
DirRegions ==
    {Ranked(Region(id, cs, fb, <<Healthy(25)>>), p) :
        id \in {RegionIdSeq[1], RegionIdSeq[2]}, cs \in {{"US"}, {"DE"}},
        fb \in {NoFallback, RegionIdSeq[1]}, p \in {1, 2}}

\* what an earlier router has left under 'cdn:regions': nothing, or a directory
PersistedBefore ==
    {NothingPersisted} \cup {<<stringifyRegions(<<region>>)>> : region \in DirRegions}

\* a new router: the directory is empty
InitDir ==
    /\ regions = <<>>
    /\ now = 1
    /\ last = [op |-> "init"]
    /\ sweep = IdleSweep
    /\ kvRegions \in PersistedBefore
    /\ ReplIdle
    /\ CacheIdle
    /\ FrontIdle

NextDir ==
    \/ \E region \in DirRegions : AddRegion(region)
    \/ LoadRegions
    \/ LoadRegionsRejected
    \/ SaveRegions
    \/ SaveRegionsRejected
    \/ RouteAny

\* the directory operations and route, in any order
SpecDir == InitDir /\ [][NextDir]_vars

\* origins per region of the health family: a region without origins lies between
HealthShape == <<2, 0, 1>>

\* what a directory loaded from the store or added by addRegion can hold
\* the health states a directory starts a sweep with: healthy below the threshold,
\* unhealthy from the threshold on
PriorOrigins ==
    {Origin(1, c < FailureThreshold, 10, c) : c \in 0..(MaxFailures - 1)}

\* the number of origins in the regions before region i
ShapeOffset(i) == SumSeq(SubSeq(HealthShape, 1, i - 1))

\* the directory of the shape whose origins are those of g, in order
HealthDirectory(g) ==
    [i \in 1..Len(HealthShape) |->
        Region(RegionIdSeq[i], {"US"}, NoFallback,
               [k \in 1..HealthShape[i] |-> g[ShapeOffset(i) + k]])]

InitHealth ==
    /\ \E g \in [1..SumSeq(HealthShape) -> PriorOrigins] : regions = HealthDirectory(g)
    /\ now = 1
    /\ last = [op |-> "init"]
    /\ sweep = IdleSweep
    /\ kvRegions = NothingPersisted
    /\ ReplIdle
    /\ CacheIdle
    /\ FrontIdle

NextHealth ==
    \/ StartSweep
    \/ ProbeAny
    \/ SweepSaved
    \/ SweepSaveFailed

SpecHealth == InitHealth /\ [][NextHealth]_vars

\* the objects uploaded to the source region before any job starts
InitRepl ==
    /\ regions = <<>>
    /\ now = 1
    /\ last = [op |-> "init"]
    /\ sweep = IdleSweep
    /\ kvRegions = NothingPersisted
    /\ jobs = <<>>
    /\ run = <<>>
    /\ \E present \in SUBSET {Key("us-east", p) : p \in Paths} :
          bucket = [k \in Keys |-> IF k \in present THEN Uploaded(k) ELSE Absent]
    /\ kvJobs = {}
    /\ statusLog = <<>>
    /\ returned = <<>>
    /\ storeLog = <<>>
    /\ faults = 0
    /\ CacheIdle
    /\ FrontIdle

NextRepl ==
    \/ \E req \in JobRequests : StartReplication(req)
    \/ \E id \in 1..MaxJobs : GetSource(id)
    \/ \E id \in 1..MaxJobs : GetSourceRejected(id)
    \/ \E id \in 1..MaxJobs : \E ok \in BOOLEAN : PutTarget(id, ok)
    \/ \E id \in 1..MaxJobs : Persist(id)
    \/ \E id \in 1..MaxJobs : PersistRejected(id)

SpecRepl == InitRepl /\ [][NextRepl]_vars

\* jobs of three and of six writes, whose percentages are not whole: one path
\* is named twice in the list
ProgressRequests ==
    { [sourceRegion |-> "us-east", targetRegions |-> <<"eu-west">>,
       paths |-> <<"a", "b", "a">>],
      [sourceRegion |-> "us-east", targetRegions |-> <<"eu-west", "ap-southeast">>,
       paths |-> <<"a", "b", "a">>] }

\* the jobs are started one after the other, each when the runs before it have ended
NextProgress ==
    \/ \E req \in ProgressRequests :
          /\ \A id \in 1..Len(jobs) : run[id].pc \in {"done", "rejected"}
          /\ StartReplication(req)
    \/ \E id \in 1..MaxJobs : GetSource(id)
    \/ \E id \in 1..MaxJobs : GetSourceRejected(id)
    \/ \E id \in 1..MaxJobs : \E ok \in BOOLEAN : PutTarget(id, ok)
    \/ \E id \in 1..MaxJobs : Persist(id)
    \/ \E id \in 1..MaxJobs : PersistRejected(id)

SpecProgress == InitRepl /\ [][NextProgress]_vars

\* the jobs of the listing family: one write, and no path at all
ListRequests ==
    { [sourceRegion |-> "us-east", targetRegions |-> <<"eu-west">>, paths |-> <<"a">>],
      [sourceRegion |-> "us-east", targetRegions |-> <<"eu-west">>, paths |-> <<>>] }

NextList ==
    \/ \E req \in ListRequests : StartReplication(req)
    \/ \E id \in 1..MaxJobs : GetSource(id)
    \/ \E id \in 1..MaxJobs : GetSourceRejected(id)
    \/ \E id \in 1..MaxJobs : \E ok \in BOOLEAN : PutTarget(id, ok)
    \/ \E id \in 1..MaxJobs : Persist(id)
    \/ \E id \in 1..MaxJobs : PersistRejected(id)
    \/ \E limit \in ListLimits : ListJobs(limit)
    \/ \E limit \in ListLimits : ListJobsRejected(limit)

\* replication jobs and calls of listJobs, interleaved
SpecList == InitRepl /\ [][NextList]_vars

\* the strings getCacheKey is called with, as paths and as region ids
KeyStrings == {"", "a", "b", "c", ":", "a:", ":a", "a:b", "b:c"}

InitKey ==
    /\ regions = <<>>
    /\ now = 1
    /\ last = [op |-> "init"]
    /\ sweep = IdleSweep
    /\ kvRegions = NothingPersisted
    /\ ReplIdle
    /\ CacheIdle
    /\ FrontIdle

NextKey == \E path \in KeyStrings : \E region \in KeyStrings : GetCacheKey(path, region)

SpecKey == InitKey /\ [][NextKey]_vars

\* the directories of the cache family: none; two healthy regions; a region that
\* fails over to the other; a single unhealthy region that only 'DE' matches
CacheDirectories ==
    { <<>>,
      <<Region("a", {"US"}, NoFallback, <<Healthy(25)>>),
        Region("a:b", {"DE"}, NoFallback, <<Healthy(25)>>)>>,
      <<Region("a", {"US"}, "a:b", <<Unhealthy>>),
        Region("a:b", {"DE"}, NoFallback, <<Healthy(25)>>)>>,
      <<Region("a", {"DE"}, NoFallback, <<Unhealthy>>)>> }

InitCache ==
    /\ regions \in CacheDirectories
    /\ now = 1
    /\ last = [op |-> "init"]
    /\ sweep = IdleSweep
    /\ kvRegions = NothingPersisted
    /\ ReplIdle
    /\ CacheIdle
    /\ FrontIdle

CacheCountries == {"US", "DE"}

\* a call whose store call rejects stores and returns nothing: one content and one
\* path stand for all
RejectedContent == "x"

RejectedPath == "c"

NextCache ==
    \/ \E path \in CachePaths : \E id \in CacheRegionIds : \E content \in Contents :
          Cache(path, id, content, TRUE)
    \/ \E id \in CacheRegionIds : Cache(RejectedPath, id, RejectedContent, FALSE)
    \/ \E path \in CachePaths : \E c \in CacheCountries : \E d \in RouteDraws(regions, c) :
          GetCached(path, c, d, TRUE)
    \/ \E c \in CacheCountries : \E d \in RouteDraws(regions, c) :
          GetCached(RejectedPath, c, d, FALSE)
    \/ \E path \in CachePaths : PurgeStart(path)
    \/ \E ok \in BOOLEAN : PurgeDelete(ok)
    \/ \E path \in CachePaths : \E content \in Contents : WarmStart(path, content)
    \/ \E ok \in BOOLEAN : WarmPut(ok)

SpecCache == InitCache /\ [][NextCache]_vars

\* the front door over the objects that are uploaded, no entry cached yet
InitFront ==
    /\ regions = <<>>
    /\ now = 1
    /\ last = [op |-> "init"]
    /\ sweep = IdleSweep
    /\ kvRegions = NothingPersisted
    /\ ReplIdle
    /\ kvCache = {}
    /\ geo = IdleGeo
    /\ entries = NoEntries
    /\ reqs = <<>>
    /\ \E present \in SUBSET FrontPaths :
          assets = [path \in FrontPaths |-> IF path \in present THEN Asset(path) ELSE NoAsset]
    /\ served = NoneServed

NextFront ==
    \/ \E path \in FrontPaths \cup {EmptyPath} : \E inm \in IfNoneMatch : GetRequest(path, inm)
    \/ \E r \in 1..MaxClients : CacheGot(r)
    \/ \E r \in 1..MaxClients : HitPut(r)
    \/ \E r \in 1..MaxClients : AssetGot(r)
    \/ \E r \in 1..MaxClients : MissPut(r)
    \/ \E path \in FrontPaths \cup {EmptyPath} : PutRequest(path)
    \/ \E u \in 1..MaxClients : AssetPut(u)
    \/ \E u \in 1..MaxClients : CacheDelete(u)

\* GET /cdn and PUT /cdn requests, handled concurrently
SpecFront == InitFront /\ [][NextFront]_vars

----------------------------------------------------------------------------
(* Properties of the health monitor (SpecHealth) *)

\* the origin the last probe was recorded on, as it is now
ProbedOrigin == regions[last.region].origins[last.origin]

\* C1: immediately after every probe recorded by performHealthChecks, whatever its
\* outcome, the probed origin satisfies healthy = (consecutiveFailures < 3).
C1_HealthyIffBelowThreshold ==
    last.op = "probe" =>
        (ProbedOrigin.healthy <=> ProbedOrigin.consecutiveFailures < FailureThreshold)

\* C2: a successful probe sets consecutiveFailures to 0 and healthy to true, for
\* any prior counter value and any prior health flag.
C2_SuccessResets ==
    (last.op = "probe" /\ last.outcome = "ok") =>
        /\ ProbedOrigin.consecutiveFailures = 0
        /\ ProbedOrigin.healthy

\* a successful probe of an unhealthy origin whose counter had reached the threshold
C2_Witness ==
    /\ last.op = "probe"
    /\ last.outcome = "ok"
    /\ last.before.consecutiveFailures >= FailureThreshold
    /\ ~last.before.healthy
    /\ ProbedOrigin.healthy

RECURSIVE OriginsFrom(_, _, _)
\* every origin of rs from origin oi of region ri on, region by region
OriginsFrom(rs, ri, oi) ==
    IF ri > Len(rs) THEN <<>>
    ELSE IF oi > Len(rs[ri].origins) THEN OriginsFrom(rs, ri + 1, 1)
    ELSE <<[region |-> ri, origin |-> oi]>> \o OriginsFrom(rs, ri, oi + 1)

\* the origins the probes of log were made on
ProbedOrigins(log) == [i \in 1..Len(log) |-> [region |-> log[i].region, origin |-> log[i].origin]]

\* regions' is regions but for origin oi of region ri
OnlyOriginChanged(ri, oi) ==
    /\ Len(regions') = Len(regions)
    /\ \A i \in 1..Len(regions) :
          /\ regions'[i].id = regions[i].id
          /\ regions'[i].countries = regions[i].countries
          /\ regions'[i].fallback = regions[i].fallback
          /\ Len(regions'[i].origins) = Len(regions[i].origins)
          /\ \A k \in 1..Len(regions[i].origins) :
                <<i, k>> # <<ri, oi>> => regions'[i].origins[k] = regions[i].origins[k]

\* C15: a failing probe (non-success response, timeout or exception) never aborts
\* a health sweep and never makes performHealthChecks fail: a probe, whatever its
\* outcome, changes only the probed origin's state and leaves the sweep running,
\* and a sweep only ends once every origin of every region has been probed exactly
\* once, in order.
C15_ProbeFailuresIsolated ==
    [][/\ last'.op = "probe" =>
             /\ OnlyOriginChanged(last'.region, last'.origin)
             /\ sweep'.phase \in {"probe", "save"}
       /\ (sweep.phase # "idle" /\ sweep'.phase = "idle") =>
             /\ ProbedOrigins(sweep.probed) = OriginsFrom(regions, 1, 1)
             /\ last'.op = "performHealthChecks"
             /\ last'.ok => Len(last'.results) = Len(regions)
      ]_vars

\* a sweep has returned its results after a probe that threw and a probe that got
\* a non-success response, each followed by further probes
C15_Witness ==
    /\ last.op = "performHealthChecks"
    /\ last.ok
    /\ Len(last.probed) = SumSeq(HealthShape)
    /\ last.probed[1].outcome = "throw"
    /\ last.probed[2].outcome = "notOk"
    /\ last.probed[3].outcome = "ok"

\* C16: the RegionHealthStatus that performHealthChecks returns for a region
\* reports availableOrigins equal to the number of the region's origins whose
\* healthy flag is true after the sweep, healthy equal to (availableOrigins > 0),
\* totalOrigins equal to the number of origins, and avgLatencyMs equal to the mean
\* latency of exactly the healthy origins (0 when none is healthy); it agrees with
\* getHealthStatus evaluated right after the sweep.
C16_ResultsAgreeWithFlags ==
    (last.op = "performHealthChecks" /\ last.ok) =>
        \A i \in 1..Len(regions) :
            LET got  == last.results[i]
                want == getHealthStatus(regions)[i]
            IN  /\ got.regionId = want.regionId
                /\ got.availableOrigins = Len(HealthyOrigins(regions[i]))
                /\ got.healthy = (got.availableOrigins > 0)
                /\ got.totalOrigins = Len(regions[i].origins)
                /\ got.avgNum * want.avgDen = want.avgNum * got.avgDen
                /\ got.healthy = want.healthy
                /\ got.availableOrigins = want.availableOrigins
                /\ got.totalOrigins = want.totalOrigins

----------------------------------------------------------------------------
(* Properties of the routing engine (SpecRoute) *)

Routed == last.op = "route"

\* the country route looks up: cf?.country || 'US'
RequestCountry == IF last.country = NoCountry THEN DefaultCountry ELSE last.country

Matched == findRegionByCountry(regions, RequestCountry)

NoHealthyRegionAtAll == \A i \in 1..Len(regions) : ~isRegionHealthy(regions[i])

\* the matched region has no healthy origin and declares a fallback of the directory
FailoverCase ==
    /\ Matched # NoRegion
    /\ ~isRegionHealthy(regions[Matched])
    /\ regions[Matched].fallback # NoFallback
    /\ \E i \in 1..Len(regions) : regions[i].id = regions[Matched].fallback

\* C3: when the matched region has zero healthy origins and declares a fallback id
\* that exists in the directory, route returns a decision whose region is the
\* fallback region, with fallback = true and reason = 'failover'.
C3_FailoverDecision ==
    (Routed /\ FailoverCase) =>
        /\ last.result.ok
        /\ regions[last.result.region].id = regions[Matched].fallback
        /\ last.result.fallback
        /\ last.result.reason = "failover"

\* a failover to another region than the matched one
C3_Witness ==
    /\ Routed
    /\ FailoverCase
    /\ last.result.ok
    /\ last.result.region # Matched
    /\ last.result.fallback

\* C4: when no region's country set contains the request country and no region has
\* a healthy origin, route fails with the NoHealthyRegion error and returns no decision.
C4_NoMatchNoHealthyFails ==
    (Routed /\ Matched = NoRegion /\ NoHealthyRegionAtAll) =>
        /\ ~last.result.ok
        /\ last.result.error = "No healthy regions available"
        /\ last.result.region = NoRegion

\* the failure in a directory that holds regions, none matching and none healthy
C4_Witness ==
    /\ Routed
    /\ Len(regions) > 0
    /\ Matched = NoRegion
    /\ NoHealthyRegionAtAll
    /\ ~last.result.ok

\* C5, as stated: whenever no region has any healthy origin, route fails with
\* NoHealthyRegion for every request country, matched or not.
C5_NoHealthyAlwaysFails ==
    (Routed /\ NoHealthyRegionAtAll) => ~last.result.ok

\* the matched region declares a fallback id that no region of the directory has
FallbackMissing ==
    /\ Matched # NoRegion
    /\ regions[Matched].fallback # NoFallback
    /\ \A i \in 1..Len(regions) : regions[i].id # regions[Matched].fallback

\* C5, amended: whenever no region has any healthy origin, route fails with
\* NoHealthyRegion exactly when no region matches the request country or the matched
\* region declares a fallback id that is not in the directory; otherwise it returns
\* a decision for the matched region, or for its fallback with fallback = true.
C5_NoHealthyFailsUnlessTargeted ==
    (Routed /\ NoHealthyRegionAtAll) =>
        /\ ~last.result.ok <=> (Matched = NoRegion \/ FallbackMissing)
        /\ last.result.ok =>
              IF regions[Matched].fallback = NoFallback
              THEN last.result.region = Matched /\ ~last.result.fallback
              ELSE /\ regions[last.result.region].id = regions[Matched].fallback
                   /\ last.result.fallback

\* no healthy region anywhere and a matched country: the degraded decision
C5_Witness ==
    /\ Routed
    /\ NoHealthyRegionAtAll
    /\ Matched # NoRegion
    /\ last.result.ok
    /\ last.result.region = Matched
    /\ last.result.origin # NoOrigin

\* the region of the last decision
Chosen == regions[last.result.region]

\* C6: in weighted origin selection, for every draw and every order of the healthy
\* origins, an origin of weight 0 is never selected while the chosen region has a
\* healthy origin of positive weight.
C6_ZeroWeightNeverSelected ==
    (/\ Routed
     /\ last.result.ok
     /\ \E i \in 1..Len(Chosen.origins) :
            Chosen.origins[i].healthy /\ Chosen.origins[i].weight > 0) =>
        Chosen.origins[last.result.origin].weight > 0

\* C7: when the chosen region has exactly one healthy origin, route returns that
\* origin, never an unhealthy one, whatever a random draw would be.
C7_SingleHealthyShortcut ==
    (Routed /\ last.result.ok /\ Len(HealthyOrigins(Chosen)) = 1) =>
        /\ last.result.origin = HealthyOrigins(Chosen)[1]
        /\ Chosen.origins[last.result.origin].healthy
        /\ \A d \in 0..(2 * MaxWeight * MaxOrigins) :
              selectOrigin(Chosen, d) = last.result.origin

\* the one healthy origin is returned from behind an unhealthy one
C7_Witness ==
    /\ Routed
    /\ last.result.ok
    /\ Len(HealthyOrigins(Chosen)) = 1
    /\ Len(Chosen.origins) >= 2
    /\ ~Chosen.origins[1].healthy
    /\ last.result.origin > 1

\* C8: route leaves the Region Directory unchanged, whether it returns a decision
\* or fails: the regions and every origin's healthy, latencyMs, consecutiveFailures
\* and lastCheck are after the call what they were before.
C8_RouteReadOnly ==
    [][last'.op = "route" => (regions' = regions /\ kvRegions' = kvRegions)]_vars

\* route has returned a decision with an origin over a directory of MaxRegions regions
C8_Witness ==
    /\ Routed
    /\ last.result.ok
    /\ last.result.origin # NoOrigin
    /\ Len(regions) = MaxRegions

\* the matched region has no healthy origin and names a fallback that is missing
FallbackLookupFails == FallbackMissing /\ ~isRegionHealthy(regions[Matched])

\* the average latency of a over its healthy origins is at most (below) that of b
AvgAtMost(a, b) == LatencySum(a) * LatencyCount(b) <= LatencySum(b) * LatencyCount(a)

AvgBelow(a, b) == LatencySum(a) * LatencyCount(b) < LatencySum(b) * LatencyCount(a)

\* C27: when no region matches the request country, or the matched unhealthy
\* region's fallback id is not in the directory, route selects among the regions
\* with a healthy origin one whose average latency over its healthy origins is
\* minimal, the first such region in directory order on ties; the reason is 'geo'
\* when no fallback step was taken.
C27_LowestLatencyAmongHealthy ==
    (Routed /\ (Matched = NoRegion \/ FallbackLookupFails) /\ ~NoHealthyRegionAtAll) =>
        /\ last.result.ok
        /\ isRegionHealthy(Chosen)
        /\ \A i \in 1..Len(regions) :
              isRegionHealthy(regions[i]) =>
                  /\ AvgAtMost(Chosen, regions[i])
                  /\ i < last.result.region => AvgBelow(Chosen, regions[i])
        /\ Matched = NoRegion => (last.result.reason = "geo" /\ ~last.result.fallback)

\* no region matches; of two healthy regions the second has the lower average,
\* over two healthy origins whose latencies sum up to more than the first region's
C27_Witness ==
    /\ Routed
    /\ Matched = NoRegion
    /\ Len(regions) = 2
    /\ isRegionHealthy(regions[1])
    /\ LatencySum(regions[2]) > LatencySum(regions[1])
    /\ last.result.ok
    /\ last.result.region = 2
    /\ last.result.reason = "geo"

\* the position of the region that the matched region names as its fallback
FallbackOfMatched == RegionsGet(regions, regions[Matched].fallback)

\* C28: route follows a fallback at most one hop: the region of the decision is
\* the matched region, its direct fallback, or a region picked by lowest latency,
\* never the fallback of a fallback, even when the fallback region has no healthy
\* origin and declares a fallback of its own (cycles A -> B -> A included).
C28_FallbackOneHop ==
    (Routed /\ last.result.ok) =>
        IF Matched = NoRegion \/ FallbackLookupFails
        THEN last.result.region = findLowestLatencyRegion(regions)
        ELSE IF isRegionHealthy(regions[Matched]) \/ regions[Matched].fallback = NoFallback
        THEN last.result.region = Matched
        ELSE last.result.region = FallbackOfMatched

\* two regions without a healthy origin that name each other as fallback: the
\* decision is for the fallback of the matched one
C28_Witness ==
    /\ Routed
    /\ Len(regions) = 2
    /\ Matched = 1
    /\ NoHealthyRegionAtAll
    /\ regions[1].fallback = regions[2].id
    /\ regions[2].fallback = regions[1].id
    /\ last.result.ok
    /\ last.result.region = 2
    /\ last.result.origin # NoOrigin

\* C30: when the region finally chosen by route has zero healthy origins (an
\* unhealthy matched region without fallback, or an unhealthy fallback region),
\* route does not fail but returns that region's first origin.
C30_DegradedFirstOrigin ==
    (/\ Routed
     /\ Matched # NoRegion
     /\ ~isRegionHealthy(regions[Matched])
     /\ ~FallbackLookupFails
     /\ LET chosen == IF regions[Matched].fallback = NoFallback
                       THEN Matched ELSE FallbackOfMatched
        IN  ~isRegionHealthy(regions[chosen])) =>
        /\ last.result.ok
        /\ Len(Chosen.origins) > 0
        /\ last.result.origin = 1

\* the same where the region finally chosen has an origin at all
DegradedFirstOriginWhenAny ==
    (/\ Routed
     /\ Matched # NoRegion
     /\ ~isRegionHealthy(regions[Matched])
     /\ ~FallbackLookupFails
     /\ LET chosen == IF regions[Matched].fallback = NoFallback
                       THEN Matched ELSE FallbackOfMatched
        IN  ~isRegionHealthy(regions[chosen]) /\ Len(regions[chosen].origins) > 0) =>
        /\ last.result.ok
        /\ ~isRegionHealthy(Chosen)
        /\ last.result.origin = 1

\* C33: every decision returned by route carries an origin that exists and is one
\* of the origins of the decision's region, for every directory content, a region
\* with an empty origins list included.
C33_DecisionOriginExists ==
    (Routed /\ last.result.ok) =>
        /\ last.result.origin # NoOrigin
        /\ last.result.origin \in 1..Len(Chosen.origins)

\* a decision for a region whose origins list is empty: its origin is undefined
DecisionWithoutOrigin ==
    /\ Routed
    /\ last.result.ok
    /\ Chosen.origins = <<>>
    /\ last.result.origin = NoOrigin

\* the same where the region finally chosen has an origin at all
DecisionOriginExistsWhenAny ==
    (Routed /\ last.result.ok /\ Len(Chosen.origins) > 0) =>
        last.result.origin \in 1..Len(Chosen.origins)

\* C34: whenever at least one region of the directory has a healthy origin, the
\* origin of the decision route returns is healthy, for every request country.
C34_HealthyOriginWhenAnyHealthy ==
    (Routed /\ ~NoHealthyRegionAtAll) =>
        /\ last.result.ok
        /\ last.result.origin # NoOrigin
        /\ Chosen.origins[last.result.origin].healthy

\* a decision for the matched region, which has no healthy origin and declares no
\* fallback, while another region of the directory is healthy
UnhealthyDecisionBesideHealthy ==
    /\ Routed
    /\ ~NoHealthyRegionAtAll
    /\ Matched # NoRegion
    /\ regions[Matched].fallback = NoFallback
    /\ last.result.ok
    /\ last.result.region = Matched
    /\ ~isRegionHealthy(Chosen)

\* the decision's origin is healthy whenever the region route settles on is healthy
HealthyOriginOfHealthyRegion ==
    (Routed /\ last.result.ok /\ isRegionHealthy(Chosen)) =>
        /\ last.result.origin # NoOrigin
        /\ Chosen.origins[last.result.origin].healthy

----------------------------------------------------------------------------
(* Properties of the directory (SpecDir) *)

UniqueIds(rs) == \A i, j \in 1..Len(rs) : rs[i].id = rs[j].id => i = j

\* the regions of rs without those of this id, in order
Others(rs, id) == SelectSeq(rs, LAMBDA r : r.id # id)

\* C21: addRegion inserts or replaces by id and is idempotent: the directory holds
\* exactly one region per id; after addRegion(r) the region under r's id is r, the
\* regions of the other ids are the ones that were there, and a second
\* addRegion(r) leaves the directory as the first one left it.
C21_AddRegionReplacesById ==
    [][/\ UniqueIds(regions')
       /\ last'.op = "addRegion" =>
             LET r == last'.region
             IN  /\ \E i \in 1..Len(regions') : regions'[i] = r
                 /\ Others(regions', r.id) = Others(regions, r.id)
                 /\ addRegion(regions', r) = regions'
      ]_vars

\* a region has been replaced by one of its id while another region stands beside it
C21_Witness ==
    /\ last.op = "addRegion"
    /\ Len(regions) = 2
    /\ regions[1] = last.region
    /\ kvRegions # NothingPersisted
    /\ \E k \in 1..Len(kvRegions[1]) :
          LET was == parseRegions(kvRegions[1])[k]
          IN  was.id = last.region.id /\ was # last.region

\* the Region[] that loadRegions reads from the store
PersistedRegions ==
    IF kvRegions = NothingPersisted THEN <<>> ELSE parseRegions(kvRegions[1])

PersistedIds == {PersistedRegions[k].id : k \in 1..Len(PersistedRegions)}

\* C22: loadRegions merges the persisted collection into the directory by id:
\* every persisted region is in the directory afterwards under its id, every region
\* whose id is not persisted is left as it was, and when nothing is persisted the
\* directory is unchanged.
C22_LoadMergesById ==
    [][(last'.op = "loadRegions" /\ last'.ok) =>
          /\ \A k \in 1..Len(PersistedRegions) :
                \E i \in 1..Len(regions') : regions'[i] = PersistedRegions[k]
          /\ \A j \in 1..Len(regions) :
                regions[j].id \notin PersistedIds =>
                    j <= Len(regions') /\ regions'[j] = regions[j]
          /\ UniqueIds(regions')
          /\ kvRegions = NothingPersisted => regions' = regions
      ]_vars

\* a load has put a persisted region behind a region that is not persisted
C22_Witness ==
    /\ last.op = "loadRegions"
    /\ last.ok
    /\ Len(regions) = 2
    /\ Len(PersistedRegions) = 1
    /\ regions[1].id \notin PersistedIds
    /\ regions[2] = PersistedRegions[1]

\* C23: when the key-value store fails during saveRegions or loadRegions the call
\* rejects, the persisted record is what it was and so is the directory.
C23_StoreFailureChangesNothing ==
    [][(last'.op \in {"saveRegions", "loadRegions"} /\ ~last'.ok) =>
          /\ kvRegions' = kvRegions
          /\ regions' = regions
      ]_vars

\* a call has failed while the persisted record differs from the directory
C23_Witness ==
    /\ last.op \in {"saveRegions", "loadRegions"}
    /\ ~last.ok
    /\ kvRegions # NothingPersisted
    /\ Len(regions) > 0
    /\ PersistedRegions # regions

\* the regions that list the request country
Listing == {i \in 1..Len(regions) : RequestCountry \in regions[i].countries}

----------------------------------------------------------------------------
(* Properties of the replicator (SpecRepl) *)

Terminal == {"completed", "failed"}

\* the status histories of the state machine pending -> running -> completed | failed
LegalLogs ==
    { <<"pending">>, <<"pending", "running">>,
      <<"pending", "running", "completed">>, <<"pending", "running", "failed">> }

\* C9: a job's status only ever moves pending -> running -> completed or
\* pending -> running -> failed, and once a job is completed or failed neither its
\* status nor the rest of its record changes again.
C9_StatusMachine ==
    [][\A id \in 1..Len(jobs') :
          /\ statusLog'[id] \in LegalLogs
          /\ jobs'[id].status = statusLog'[id][Len(statusLog'[id])]
          /\ (id <= Len(jobs) /\ jobs[id].status \in Terminal) => jobs'[id] = jobs[id]
      ]_vars

\* a failed job has been persisted while another job is still running
C9_Witness ==
    \E id, other \in 1..Len(jobs) :
        /\ run[id].pc = "done"
        /\ statusLog[id] = <<"pending", "running", "failed">>
        /\ jobs[other].status = "running"

\* C10: the record startReplication returns is in status pending with progress 0
\* and no errors, and it is the record getJobStatus(id) returns.
C10_ReturnedPending ==
    \A id \in 1..Len(returned) :
        /\ returned[id].status = "pending"
        /\ returned[id].progress = 0
        /\ returned[id].errors = <<>>
        /\ getJobStatus(id).id = returned[id].id

\* the store calls of job id's run that are calls of op
CallsOf(id, op) == SelectSeq(storeLog[id], LAMBDA c : c.op = op)

\* the writes of job id's run that failed, in the order they were attempted
FailedWrites(id) ==
    SelectSeq(storeLog[id], LAMBDA c : c.op = "put" /\ c.outcome = "rejected")

\* the run of job id has ended and every source object it asked for existed
EndedWithAllSources(id) ==
    /\ jobs[id].status \in Terminal
    /\ \A i \in 1..Len(CallsOf(id, "get")) : CallsOf(id, "get")[i].outcome = "object"

\* progress 100, one error per failed write naming its path and target, and the
\* status that the number of failed writes decides
WritesAccounted(id) ==
    /\ jobs[id].progress = 100
    /\ jobs[id].errors = [i \in 1..Len(FailedWrites(id)) |->
                             ReplicateFailed(FailedWrites(id)[i].path,
                                             FailedWrites(id)[i].target)]
    /\ jobs[id].status = IF Len(FailedWrites(id)) > 0 THEN "failed" ELSE "completed"

\* C11: a replication job whose source objects all exist, with P paths and T
\* targets of which exactly k (path, target) writes fail, ends with progress 100,
\* with exactly k errors (one per failed pair, naming its path and target), and
\* with status failed when k > 0 and completed when k = 0.
C11_WritesAccounted ==
    \A id \in 1..Len(jobs) : EndedWithAllSources(id) => WritesAccounted(id)

\* the same for the jobs that have at least one path and one target
WritesAccountedWhenWritten ==
    \A id \in 1..Len(jobs) :
        (EndedWithAllSources(id) /\ TotalPaths(jobs[id]) > 0) => WritesAccounted(id)

\* two paths, two targets, exactly one of the four writes failed
OneOfFourWritesFailed ==
    \E id \in 1..Len(jobs) :
        /\ EndedWithAllSources(id)
        /\ TotalPaths(jobs[id]) = 4
        /\ Len(CallsOf(id, "put")) = 4
        /\ Len(FailedWrites(id)) = 1
        /\ jobs[id].status = "failed"

\* the run of job id has left the loop over the paths
ProcessedAllPaths(id) == run[id].pi > Len(jobs[id].paths)

\* the records stored under the key of job id
PersistedUnder(id) == {rec \in kvJobs : rec.key = id}

\* C12: when a replication run has processed all paths, the job's status is failed
\* if and only if its errors list is non-empty (otherwise completed), completedAt
\* is set, and the record persisted under the job's id, with a 7-day TTL, equals
\* that final in-memory record.
C12_FinalRecordPersisted ==
    \A id \in 1..Len(jobs) :
        ProcessedAllPaths(id) =>
            /\ jobs[id].status = IF jobs[id].errors # <<>> THEN "failed" ELSE "completed"
            /\ jobs[id].completedAt # NoTime
            /\ \A rec \in PersistedUnder(id) :
                  /\ parseJson(rec.value) = jobs[id]
                  /\ rec.expirationTtl = 7 * 86400
            /\ storeLog[id] # <<>> /\ storeLog[id][Len(storeLog[id])] = Call("persist", "", "", "ok")
                  => Cardinality(PersistedUnder(id)) = 1

\* a job that recorded an error and a job that recorded none are both persisted
C12_Witness ==
    \E id, other \in 1..Len(jobs) :
        /\ PersistedUnder(id) # {} /\ jobs[id].errors # <<>>
        /\ PersistedUnder(other) # {} /\ jobs[other].errors = <<>>

\* the run of job id has ended: it returned, or a store call rejected uncaught; no
\* step of it remains
RunEnded(id) == run[id].pc \in {"done", "rejected"}

\* C13: every replication job that is launched eventually reaches a terminal status
\* (completed or failed) and is persisted, whatever failures the object store or
\* key-value store report during the run; no job remains in running forever. A run
\* is a finite loop, so this says of a run that has ended that its job is terminal
\* and persisted: from there on nothing assigns to the job or stores it.
C13_EndedRunTerminalAndPersisted ==
    \A id \in 1..Len(jobs) :
        RunEnded(id) => (jobs[id].status \in Terminal /\ PersistedUnder(id) # {})

\* the step is the bucket.get of job id resolving with null
SourceMissingStep(id) ==
    /\ run[id].pc = "get"
    /\ storeLog'[id] = Append(storeLog[id],
                              Call("get", jobs[id].paths[run[id].pi], "", "null"))

\* how the bucket.get of this path settled in these calls
Fetched(log, path) == {c.outcome : c \in {log[k] : k \in {j \in 1..Len(log) :
                                      log[j].op = "get" /\ log[j].path = path}}}

\* C25: when the source object of a path is absent, the run appends exactly one
\* error 'Source not found: <path>', writes that path to no target and goes on
\* with the next path: the job is not aborted.
C25_MissingSourceSkipsPath ==
    [][\A id \in 1..Len(jobs) :
          /\ SourceMissingStep(id) =>
                LET path == jobs[id].paths[run[id].pi]
                IN  /\ jobs'[id].errors = Append(jobs[id].errors, SourceNotFound(path))
                    /\ bucket' = bucket
                    /\ IF run[id].pi < Len(jobs[id].paths)
                       THEN /\ run'[id].pc = "get"
                            /\ run'[id].pi = run[id].pi + 1
                            /\ jobs'[id].status = "running"
                       ELSE /\ run'[id].pc = "persist"
                            /\ jobs'[id].status = "failed"
          /\ \A k \in 1..Len(storeLog'[id]) :
                storeLog'[id][k].op = "put" =>
                    Fetched(storeLog'[id], storeLog'[id][k].path) = {"object"}
      ]_vars

\* a run has skipped a missing first path and written the second to both targets
C25_Witness ==
    \E id \in 1..Len(jobs) :
        /\ run[id].pc = "done"
        /\ Len(jobs[id].paths) = 2
        /\ jobs[id].errors = <<SourceNotFound(jobs[id].paths[1])>>
        /\ Len(CallsOf(id, "put")) = 2
        /\ \A k \in 1..2 : CallsOf(id, "put")[k].path = jobs[id].paths[2]

RECURSIVE InOrder(_, _, _, _, _)
\* the calls log[k], log[k + 1], ... are the ones a run of the job makes from target
\* ti of path pi on (ti = 0: the path's bucket.get), however the writes settle
InOrder(job, log, k, pi, ti) ==
    LET n == Len(job.targetRegions)
    IN  IF k > Len(log) THEN TRUE
        ELSE IF pi > Len(job.paths)
        THEN log[k].op = "persist" /\ k = Len(log)
        ELSE IF ti = 0
        THEN /\ log[k].op = "get"
             /\ log[k].path = job.paths[pi]
             /\ IF log[k].outcome = "object"
                THEN (IF n = 0 THEN InOrder(job, log, k + 1, pi + 1, 0)
                               ELSE InOrder(job, log, k + 1, pi, 1))
                ELSE IF log[k].outcome = "null"
                THEN InOrder(job, log, k + 1, pi + 1, 0)
                ELSE k = Len(log)
        ELSE /\ log[k].op = "put"
             /\ log[k].path = job.paths[pi]
             /\ log[k].target = job.targetRegions[ti]
             /\ IF ti = n THEN InOrder(job, log, k + 1, pi + 1, 0)
                          ELSE InOrder(job, log, k + 1, pi, ti + 1)

\* the step is a bucket.put of job id resolving
WroteStep(id) ==
    /\ run[id].pc = "put"
    /\ Len(storeLog'[id]) = Len(storeLog[id]) + 1
    /\ storeLog'[id][Len(storeLog'[id])].outcome = "ok"

\* C26: a failed write to one target does not stop the run: for every path whose
\* source object exists and every target region, exactly one write to
\* {target}/{path} is attempted, in path-then-target order, whichever earlier
\* writes failed; a successful write stores the source content with provenance
\* naming the source region and the job id. The calls of a run are in that order
\* at every moment, and a run only ends early when a read or the final kv.put
\* rejects.
C26_WritesAttemptedInOrder ==
    [][\A id \in 1..Len(jobs) :
          LET log == storeLog'[id]
          IN  /\ InOrder(jobs'[id], log, 1, 1, 0)
              /\ run'[id].pc \in {"get", "put", "persist", "done", "rejected"}
              /\ run'[id].pc = "rejected" =>
                    /\ log # <<>>
                    /\ log[Len(log)].op # "put"
                    /\ log[Len(log)].outcome = "rejected"
              /\ (log # <<>> /\ log[Len(log)].op = "put") =>
                    run'[id].pc \in {"get", "put", "persist"}
              /\ WroteStep(id) =>
                    LET c == log[Len(log)]
                    IN  bucket'[Key(c.target, c.path)] =
                            [present |-> TRUE, content |-> run[id].content,
                             replicatedFrom |-> jobs[id].sourceRegion,
                             replicationJobId |-> id]
      ]_vars

\* after the first of four writes failed the other three were attempted, and the
\* run has returned
C26_Witness ==
    \E id \in 1..Len(jobs) :
        /\ run[id].pc = "done"
        /\ Len(CallsOf(id, "put")) = 4
        /\ CallsOf(id, "put")[1].outcome = "rejected"
        /\ \A k \in 2..4 : CallsOf(id, "put")[k].outcome = "ok"

\* what a run makes of a job when it is the only run: the status, progress and
\* errors after the store calls of log from the k-th on, the run standing at path
\* pi and target ti (0: the read of the source) with completed writes counted
RECURSIVE Alone(_, _, _, _, _, _, _)
Alone(job, log, k, pi, ti, completed, res) ==
    LET n == Len(job.targetRegions)
    IN  IF pi > Len(job.paths)
        THEN [res EXCEPT !.status = IF Len(res.errors) > 0 THEN "failed" ELSE "completed"]
        ELSE IF k > Len(log) THEN res
        ELSE IF ti = 0
        THEN IF log[k].outcome = "object"
             THEN (IF n = 0 THEN Alone(job, log, k + 1, pi + 1, 0, completed, res)
                            ELSE Alone(job, log, k + 1, pi, 1, completed, res))
             ELSE IF log[k].outcome = "null"
             THEN Alone(job, log, k + 1, pi + 1, 0, completed,
                        [res EXCEPT !.errors = Append(@, SourceNotFound(job.paths[pi]))])
             ELSE res
        ELSE LET after == [res EXCEPT
                              !.errors = IF log[k].outcome = "ok" THEN @
                                         ELSE Append(@, ReplicateFailed(job.paths[pi],
                                                                        job.targetRegions[ti])),
                              !.progress = Progress(completed + 1, TotalPaths(job))]
             IN  IF ti = n THEN Alone(job, log, k + 1, pi + 1, 0, completed + 1, after)
                           ELSE Alone(job, log, k + 1, pi, ti + 1, completed + 1, after)

Outcome(job) == [status |-> job.status, progress |-> job.progress, errors |-> job.errors]

\* C31: replication jobs running concurrently are isolated: a job's status,
\* progress and errors are changed only by steps of its own run, and in every
\* interleaving of several runs they are what the job's run alone makes of the
\* responses the object store gave to that job.
\* Each step that starts a job, changes its record or adds a store call to its run
\* leaves the job as the run alone would; a step that changes a job's record is one
\* store call of that job's run and changes no other job.
C31_JobsIsolated ==
    [][\A id \in 1..Len(jobs') :
          /\ (id > Len(jobs) \/ jobs'[id] # jobs[id] \/ storeLog'[id] # storeLog[id]) =>
                 Outcome(jobs'[id]) =
                     Alone(jobs'[id], storeLog'[id], 1, 1, 0, 0,
                           [status |-> "running", progress |-> 0, errors |-> <<>>])
          /\ (id <= Len(jobs) /\ jobs'[id] # jobs[id]) =>
                 /\ Len(storeLog'[id]) = Len(storeLog[id]) + 1
                 /\ \A other \in 1..Len(jobs) : other # id => jobs'[other] = jobs[other]
      ]_vars

\* two runs interleaved: the second job has ended on an object the first job wrote,
\* with a failed write, while the first job, past a write, is still running
C31_Witness ==
    /\ Len(jobs) = 2
    /\ jobs[1].status = "running"
    /\ jobs[1].progress > 0
    /\ jobs[2].sourceRegion = "eu-west"
    /\ jobs[2].status = "failed"
    /\ jobs[2].progress = 100
    /\ Len(storeLog[2]) >= 2
    /\ storeLog[2][1].outcome = "object"

\* round(c / t * 100): the whole number p nearest to the percentage, the upper one
\* of two equally near
NearestPercent(c, t) ==
    CHOOSE p \in 0..100 : 2 * p * t <= 200 * c + t /\ 200 * c + t < 2 * (p + 1) * t

\* C32: throughout a replication run the job's progress is an integer in [0, 100],
\* never decreases, and after each (path, target) write equals
\* round(completed / (paths * targets) * 100), completed counting the writes
\* attempted so far.
C32_ProgressRoundedMonotone ==
    [][\A id \in 1..Len(jobs') :
          /\ jobs'[id].progress \in 0..100
          /\ id <= Len(jobs) => jobs'[id].progress >= jobs[id].progress
          /\ id > Len(jobs) => jobs'[id].progress = 0
          /\ (id <= Len(jobs) /\ run[id].pc = "put"
                /\ Len(storeLog'[id]) = Len(storeLog[id]) + 1) =>
                 jobs'[id].progress =
                     NearestPercent(Len(SelectSeq(storeLog'[id], LAMBDA c : c.op = "put")),
                                    Len(jobs[id].paths) * Len(jobs[id].targetRegions))
      ]_vars

\* four of six writes attempted, one of them failed: the progress is 67
C32_Witness ==
    \E id \in 1..Len(jobs) :
        /\ TotalPaths(jobs[id]) = 6
        /\ Len(CallsOf(id, "put")) = 4
        /\ FailedWrites(id) # <<>>
        /\ jobs[id].progress = 67
        /\ jobs[id].status = "running"

\* C35: every replication job that has reached a terminal status has progress 100,
\* for every combination of paths, targets, missing sources and failed writes,
\* empty path or target lists included.
C35_TerminalProgressComplete ==
    \A id \in 1..Len(jobs) : jobs[id].status \in Terminal => jobs[id].progress = 100

\* a job of two paths and two targets has ended with one source missing: its
\* progress is 50
TerminalAtHalf ==
    \E id \in 1..Len(jobs) :
        /\ jobs[id].status = "failed"
        /\ TotalPaths(jobs[id]) = 4
        /\ jobs[id].progress = 50

\* a terminal job has progress 100 exactly when every one of its writes, at least
\* one, was attempted
TerminalProgressCompleteWhenAllWritten ==
    \A id \in 1..Len(jobs) :
        jobs[id].status \in Terminal =>
            (jobs[id].progress = 100 <=>
                (TotalPaths(jobs[id]) > 0
                 /\ Len(CallsOf(id, "put")) = TotalPaths(jobs[id])))

----------------------------------------------------------------------------
(* Properties of listJobs (SpecList) *)

Listed == last.op = "listJobs" /\ last.ok

\* C14: listJobs returns only jobs that were persisted in a terminal status (never
\* a pending or running job), ordered by startedAt descending, and at most `limit`
\* of them.
C14_ListJobsTerminalSortedLimited ==
    Listed =>
        /\ \A i \in 1..Len(last.result) :
              /\ last.result[i].status \in Terminal
              /\ \E rec \in kvJobs : parseJson(rec.value) = last.result[i]
        /\ \A i, j \in 1..Len(last.result) :
              i < j => last.result[i].startedAt >= last.result[j].startedAt
        /\ Len(last.result) <= last.limit

\* two persisted jobs are listed, the later one first though its key comes second
C14_Witness ==
    /\ Listed
    /\ Len(last.result) = 2
    /\ last.result[2].id = last.keys[1]
    /\ last.result[1].startedAt > last.result[2].startedAt

----------------------------------------------------------------------------
(* Properties of the cache manager (SpecKey, SpecCache) *)

\* two calls of getCacheKey have been made
TwoKeys == last.op = "getCacheKey" /\ last.prev # Null

\* C17: getCacheKey is deterministic (the same path and region always give the
\* same key) and, for a fixed path, gives different keys for different region ids.
C17_KeyDeterministicRegionScoped ==
    (TwoKeys /\ last.prev.path = last.path) =>
        (last.prev.key = last.key <=> last.prev.region = last.region)

\* the keys of one path for two region ids, one a prefix of the other up to the
\* separator, differ
C17_Witness ==
    /\ TwoKeys
    /\ last.path = "b:c" /\ last.prev.path = "b:c"
    /\ last.prev.region = "a" /\ last.region = "a:b"
    /\ last.prev.key # last.key

\* the step is a call of getCached that returned
GetCachedReturned ==
    /\ last'.op = "getCached"
    /\ last'.result.ok
    /\ cacheVars' = cacheVars

\* the id of the region route selects for the request of the call
RoutedId == regions[RouteTarget(regions, last'.country).target].id

\* the call returned what the routed region holds for the path: null when it holds
\* nothing, otherwise the content cached for that region and path, and the region id
ReturnedRoutedEntry ==
    LET held == entries[<<RoutedId, last'.path>>]
    IN  IF held = NoContent
        THEN last'.result.value = Null
        ELSE /\ last'.result.value # Null
             /\ last'.result.value.content = held
             /\ last'.result.value.regionId = RoutedId

\* C18: getCached reads only the cache partition of the region that route selects
\* for the request: it returns null when that region has no entry for the path
\* even if another region holds an entry for the same path, and on a hit the
\* returned content and regionId are those of the routed region's entry.
C18_ReadsRoutedPartition ==
    [][GetCachedReturned => ReturnedRoutedEntry]_vars

\* no other (region id, path) pair of the family has the key of the pair
KeyUnshared(id, path) ==
    \A pair \in CacheRegionIds \X CachePaths :
        pair # <<id, path>> => getCacheKey(pair[2], pair[1]) # getCacheKey(path, id)

\* the same for the calls whose cache key no other pair shares
ReadsRoutedPartitionWhenKeyUnshared ==
    [][(GetCachedReturned /\ KeyUnshared(RoutedId, last'.path)) => ReturnedRoutedEntry]_vars

\* a miss in the routed region while the other region holds the path
MissBesideOtherRegion ==
    /\ last.op = "getCached"
    /\ last.result.ok
    /\ last.result.value = Null
    /\ \E id \in CacheRegionIds : entries[<<id, last.path>>] # NoContent

\* C19: purge(path) deletes the region-scoped entry of the path for every known
\* region, and each delete is independent: a failure of the delete for one region
\* does not fail the whole purge and does not prevent the entries of the remaining
\* regions from being deleted. Said of a purge that has ended: it did not fail,
\* and it called kv.delete for every region of the directory.
C19_PurgeDeletesIndependent ==
    last.op = "purge" =>
        /\ last.ok
        /\ [i \in 1..Len(last.log) |-> last.log[i].region] = last.ids

\* purge has returned after deleting the entry of each of two regions
PurgedEveryRegion ==
    /\ last.op = "purge"
    /\ last.ok
    /\ last.purged = 2
    /\ \A i \in 1..Len(last.log) : last.log[i].ok

\* warmCache was the last call to return, and no purge or warmCache has begun since
WarmedLast == last.op = "warmCache" /\ last.ok /\ geo.phase = "idle"

\* warmCache wrote every region of the directory and returned their ids
WroteEveryRegion ==
    /\ last.result = RegionKeys(regions)
    /\ [i \in 1..Len(last.log) |-> last.log[i].region] = RegionKeys(regions)
    /\ \A i \in 1..Len(last.log) : last.log[i].ok

\* getCached gives the warmed content for every request that route resolves
WarmedContentServed ==
    \A c \in CacheCountries : \A d \in RouteDraws(regions, c) :
        LET res == getCached(regions, kvCache, last.path, c, d)
        IN  res.ok =>
               /\ res.value # Null
               /\ res.value.content = last.content
               /\ res.value.contentType = ContentType

C36_KeysInjective ==
    (TwoKeys /\ <<last.prev.path, last.prev.region>> # <<last.path, last.region>>) =>
        last.prev.key # last.key

HasSeparator(str) == \E i \in 1..Len(Text(str)) : Text(str)[i] = ":"

\* the keys of different pairs differ where no region id contains the separator
KeysInjectiveForPlainRegionIds ==
    (/\ TwoKeys
     /\ ~HasSeparator(last.prev.region)
     /\ ~HasSeparator(last.region)
     /\ <<last.prev.path, last.prev.region>> # <<last.path, last.region>>) =>
        last.prev.key # last.key

\* under SpecCache: cache() for one (path, region) has just overwritten the entry
\* that an earlier cache() stored for a different (path, region)
OverwroteOtherPair ==
    /\ last.op = "cache"
    /\ last.ok
    /\ \E pair \in CacheRegionIds \X CachePaths :
          /\ pair # <<last.region, last.path>>
          /\ entries[pair] # NoContent
          /\ entries[pair] # last.content
          /\ getCacheKey(pair[2], pair[1]) = getCacheKey(last.path, last.region)

----------------------------------------------------------------------------
(* Properties of the front door (SpecFront) *)

\* the hits of the entry stored for the path, 0 when there is none
StoredHits(path) ==
    LET cached == KvGet(kvCache, frontKey(path))
    IN  IF cached = Null THEN 0 ELSE cached.hits

\* C24: the hit count of a cached entry, stored and reported as X-Cache-Hits,
\* equals the number of GET /cdn requests served for its path since the entry was
\* created (the request that created it included), also when several GET requests
\* for the path are handled concurrently.
C24_HitsCountRequests ==
    /\ \A path \in FrontPaths : StoredHits(path) = served[path].n
    /\ (last.op = "GET" /\ last.xCache = "HIT") => last.hits = served[last.path].n

\* the same for the paths whose entry no request has written while another request
\* held an earlier read of it
HitsCountRequestsWhenAlone ==
    /\ \A path \in FrontPaths : served[path].alone => StoredHits(path) = served[path].n
    /\ (last.op = "GET" /\ last.xCache = "HIT" /\ served[last.path].alone) =>
          last.hits = served[last.path].n

\* three requests for a path, one after the other: the third reports three hits
ThreeServedInTurn ==
    /\ last.op = "GET"
    /\ last.xCache = "HIT"
    /\ served[last.path].alone
    /\ last.hits = 3

\* C37: an upload invalidates the cache: once PUT /cdn/<path> has completed, no
\* later GET /cdn/<path> is served the content stored before the upload, for every
\* interleaving of the PUT with GET requests for the path that were already in
\* progress. A GET that arrived after the upload's response and is answered with
\* a body is answered with another body than the object had before any upload.
C37_UploadInvalidatesCache ==
    (last.op = "GET" /\ last.after /\ last.status = 200) =>
        last.body # Asset(last.path).body

\* a GET that arrived after the upload's response is served, as a hit, the old
\* content, while the object store holds the uploaded object and no other
\* request is in progress
StaleHitAfterUpload ==
    /\ last.op = "GET"
    /\ last.after
    /\ last.status = 200
    /\ last.xCache = "HIT"
    /\ last.body = Asset(last.path).body
    /\ assets[last.path].body = "uploaded"
    /\ \A r \in 1..Len(reqs) : reqs[r].pc = "done"

\* a GET that arrived after the upload's response and is answered from the
\* object store is served the uploaded object
FreshMissAfterUpload ==
    (last.op = "GET" /\ last.after /\ last.status = 200 /\ last.xCache = "MISS") =>
        last.body = "uploaded"

============================================================================
